---- MODULE Spec2Model ----
(***************************************************************************)
(* Model of meta/utils/statusline/omcc-statusline.py: the status line's    *)
(* disk caches, the availability marker, the refresh lock and the detached *)
(* refresh job, under concurrent invocations.                              *)
(*                                                                         *)
(* Processes: Invs are concurrently running invocations, each executing    *)
(* get_pr_status over and over; Jobs are the slots of detached refresh     *)
(* jobs started by Popen.  The files under CACHE_DIR are the only state    *)
(* the processes share.                                                    *)
(***************************************************************************)
EXTENDS Integers, Sequences, FiniteSets, TLC

\* ---- program constants (omcc-statusline.py) --------------------------------
PR_CACHE_TTL == 300
CI_CACHE_TTL == 120
GH_CHECK_TTL == 1800

\* ---- bounds of the model --------------------------------------------------
NumInvs == 2
MaxJobs == 2
MaxTicks == 1
MaxMtime == 2

Invs == 1..NumInvs
Jobs == 1..MaxJobs

\* Amounts by which the wall clock advances between two steps: one second,
\* and the two TTLs, so that ages hit 1, TTL and TTL+1.
TickSteps == {1, PR_CACHE_TTL, GH_CHECK_TTL}

\* Outcomes of the availability probe, fixed by the machine the tool runs on.
GhStates == {"ok", "no-gh", "no-auth"}

\* Names (of branches, owners, repositories) are sequences of characters.
BrMain == <<"m">>
BrSlash == <<"f", "/", "x">>
BrPr == <<"p">>

\* One open review of the query result: head is headRefName, roll is what
\* the walk commits.nodes[0].commit.statusCheckRollup.state finds: "nocommits"
\* for an empty commits list, "norollup" for a null rollup, else the state
\* (a rollup without the state key reads as "UNKNOWN").
RollStates == {"SUCCESS", "FAILURE", "ERROR", "PENDING", "EXPECTED", "UNKNOWN"}
Rolls == {"nocommits", "norollup"} \cup RollStates
PrNode(head, roll) == [head |-> head, roll |-> roll]

\* What read_remote_url and _parse_owner_repo give for the directory.
NoRemote == [ok |-> FALSE, owner |-> <<>>, repo |-> <<>>]
CiRemotes == {NoRemote, [ok |-> TRUE, owner |-> <<"a">>, repo |-> <<"c">>]}

\* Branch arguments of get_ci_status; the empty name is "no branch".
CiBranches == {<<>>, BrMain, BrSlash, BrPr}

\* The keys (owner, repository, branch) of the per-branch CI cache.
CiKeys ==
  {[owner |-> r.owner, repo |-> r.repo, branch |-> b] :
     r \in CiRemotes \ {NoRemote}, b \in CiBranches \ {<<>>}}

\* Review-status documents {prs, unread_count, updated_at}; nodes holds the
\* open reviews in the order of the query result.
NoDoc == [nodes |-> <<>>, unread_count |-> 0, updated_at |-> 0]
Docs ==
  { NoDoc,
    [nodes |-> <<PrNode(BrPr, "SUCCESS"), PrNode(<<"q">>, "PENDING"),
                 PrNode(<<"r">>, "norollup")>>,
     unread_count |-> 3, updated_at |-> 0] }

VARIABLES
  now,        \* time.time(), in seconds
  ticks,      \* number of clock advances so far (bounded by MaxTicks)
  ghEnv,      \* what a probe of the machine finds: ok, no-gh or no-auth
  ghFile,     \* CACHE_DIR/gh-available: [exists, text, mtime]
  prFile,     \* CACHE_DIR/pr-status.json: [exists, doc, mtime]
  lockFile,   \* CACHE_DIR/refresh.lock exists
  locked,     \* the jobs whose descriptor holds the flock on refresh.lock
  pc,         \* position of each invocation inside get_pr_status
  gh,         \* per invocation: the value check_gh_available found, "" if none yet
  ret,        \* per invocation: value returned by get_pr_status
  jpc,        \* position of the job in each slot, or how the last one there ended
  lastProbe,  \* time of the latest availability probe, -1 if none yet
  queryLog,   \* remote review/notification queries issued: [by, id, held]
  replaced,   \* the jobs that renamed their temporary file over pr-status.json
  cfPath, cfTtl, cfNow,   \* arguments of one call of is_cache_fresh, and the clock
  cfResult,               \* its result: "fresh" or "stale", "none" before the call
  prDoc,      \* the parsed pr-status.json one rendering of get_pr_status reads
  prOut,      \* what it returns
  prDone,     \* whether the rendering has returned
  aggRuns,    \* a non-empty check-runs list handed to the aggregation
  aggResult,  \* the aggregated conclusion, "none" before the call
  ciFiles,    \* CI_CACHE_DIR: file name -> [text, mtime]
  ciFetched,  \* per key: time of the latest remote call with a parseable result
  ciLast,     \* what the latest call of get_ci_status saw and did
  ciEnvChanges,  \* number of changes of the gh login state so far
  mIn,        \* main: what arrives on stdin
  mpc,        \* main: position of the main thread
  mUnit,      \* main: state of each unit submitted to the pool
  mVal,       \* main: what each unit returned
  mResults,   \* main: the results dict
  mCollected, \* main: the futures as_completed has yielded so far, in order
  mCi,        \* main: state of the call of get_ci_status, and its label
  mOut,       \* main: what has been printed on stdout
  mExit,      \* main: exit status, -1 while the process runs
  mJob,       \* main: the detached refresh job get_pr_status may have started
  theme,      \* the tokens of class T and the global SEP2
  callIn,     \* the arguments of one call of a function exercised alone
  callOut,    \* what that call returned
  callDone    \* whether it has returned

sysvars == <<now, ticks, ghEnv, ghFile, prFile, lockFile, locked, pc, gh,
             ret, jpc, lastProbe, queryLog, replaced>>
cfvars == <<cfPath, cfTtl, cfNow, cfResult>>
prvars == <<prDoc, prOut, prDone>>
aggvars == <<aggRuns, aggResult>>
civars == <<ciFiles, ciFetched, ciLast, ciEnvChanges>>
mainvars == <<mIn, mpc, mUnit, mVal, mResults, mCollected, mCi, mOut, mExit, mJob>>
fnvars == <<theme, callIn, callOut, callDone>>
hvars == <<prvars, aggvars, civars, mainvars, fnvars>>
\* Everything a function exercised alone leaves untouched.
others == <<sysvars, cfvars, prvars, aggvars, civars, mainvars>>
vars == <<sysvars, cfvars, hvars>>

\* ---- helpers ---------------------------------------------------------------

\* A path as is_cache_fresh sees it: stat fails, or yields st_mtime.
MissingPath == [exists |-> FALSE, mtime |-> 0]

\* Variants of is_cache_fresh: one that counts the exact TTL as fresh, one
\* that compares the wrong way round.
is_cache_fresh_le(path, ttl, t) ==
  IF ~path.exists THEN FALSE ELSE (t - path.mtime) <= ttl

is_cache_fresh_gt(path, ttl, t) ==
  IF ~path.exists THEN FALSE ELSE (t - path.mtime) > ttl

\* is_cache_fresh(path, ttl), called when time.time() is t: OSError from
\* stat gives False, otherwise age < ttl.

is_cache_fresh(path, ttl, t) ==
  IF ~path.exists THEN FALSE ELSE (t - path.mtime) < ttl

EmptyOut == [parts |-> <<>>, unread |-> 0]
DiagOut(msg) == [parts |-> <<[color |-> "err", text |-> msg, n |-> 1]>>, unread |-> 0]

\* A variant of RollState that takes a review without rollup for a pending one.
RollStateMissingPending(node) ==
  IF node.roll \in {"nocommits", "norollup"} THEN "PENDING" ELSE node.roll

\* The state get_pr_status gives a review: UNKNOWN unless there is a commit
\* with a rollup, then the rollup's state.
RollState(node) ==
  IF node.roll \in {"nocommits", "norollup"} THEN "UNKNOWN" ELSE node.roll

\* Number of reviews of nodes whose rollup state lies in the set bucket.
RECURSIVE CountIn(_, _)
CountIn(nodes, bucket) ==
  IF nodes = <<>> THEN 0
  ELSE (IF RollState(Head(nodes)) \in bucket THEN 1 ELSE 0)
       + CountIn(Tail(nodes), bucket)

RedStates == {"FAILURE", "ERROR"}
PendingStates == {"PENDING", "EXPECTED"}
GreenStates == {"SUCCESS"}
GrayCount(nodes) ==
  Len(nodes) - CountIn(nodes, RedStates) - CountIn(nodes, PendingStates)
             - CountIn(nodes, GreenStates)

DotGroup(color, n) ==
  IF n > 0 THEN <<[color |-> color, text |-> "dot", n |-> n]>> ELSE <<>>

\* cache.get("unread_count", 0)
UnreadOf(doc) == IF "unread_count" \in DOMAIN doc THEN doc.unread_count ELSE 0

\* The rendering part of get_pr_status, applied to the parsed document.
PrRender(doc) ==
  IF doc.nodes = <<>> THEN EmptyOut
  ELSE [parts |-> DotGroup("pr_fail", CountIn(doc.nodes, RedStates))
                  \o DotGroup("pr_wait", CountIn(doc.nodes, PendingStates))
                  \o DotGroup("pr_ok", CountIn(doc.nodes, GreenStates))
                  \o DotGroup("pr_none", GrayCount(doc.nodes)),
        unread |-> IF UnreadOf(doc) > 0 THEN UnreadOf(doc) ELSE 0]


\* ---- initial state ---------------------------------------------------------

\* The cache directory outlives every invocation and is shared with whatever
\* ran before: pr-status.json may be absent or hold a document left there
\* earlier.  The marker and the lock file are created lazily by the program.
SysInit ==
  /\ now = 0
  /\ ticks = 0
  /\ ghEnv \in GhStates
  /\ ghFile = [exists |-> FALSE, text |-> "", mtime |-> 0]
  /\ prFile \in {[exists |-> FALSE, doc |-> NoDoc, mtime |-> 0]}
                \cup {[exists |-> TRUE, doc |-> d, mtime |-> 0] : d \in Docs}
  /\ lockFile = FALSE
  /\ locked = {}
  /\ pc = [i \in Invs |-> "idle"]
  /\ gh = [i \in Invs |-> ""]
  /\ ret = [i \in Invs |-> EmptyOut]
  /\ jpc = [j \in Jobs |-> "none"]
  /\ lastProbe = -1
  /\ queryLog = {}
  /\ replaced = {}

CfIdle ==
  /\ cfPath = MissingPath
  /\ cfTtl = PR_CACHE_TTL
  /\ cfNow = 0
  /\ cfResult = "none"

PrIdle ==
  /\ prDoc = NoDoc
  /\ prOut = EmptyOut
  /\ prDone = FALSE

AggIdle ==
  /\ aggRuns = <<>>
  /\ aggResult = "none"

\* No call of get_ci_status yet.
CiNoCall ==
  [n |-> 0, branch |-> <<>>, rem |-> NoRemote, at |-> 0, entry |-> "nokey",
   prevFetch |-> -1, ghv |-> "", prHit |-> FALSE, ciRead |-> FALSE,
   remote |-> 0, api |-> "nocall", label |-> ""]

CiIdle ==
  /\ ciFiles = <<>>
  /\ ciFetched = [k \in CiKeys |-> -1]
  /\ ciLast = CiNoCall
  /\ ciEnvChanges = 0

\* The three units main submits to the pool.
Units == {"git", "pr", "ccusage"}

\* What a unit returns: get_git_info a pair (branch, status), the other two
\* a string.
GitVals == {[branch |-> "", status |-> ""], [branch |-> "main", status |-> ""],
            [branch |-> "main", status |-> "dirty"]}
UnitVals(u) ==
  IF u = "git" THEN GitVals
  ELSE IF u = "pr" THEN {[text |-> ""], [text |-> "dots"]}
  ELSE {[text |-> ""], [text |-> "usage"]}

\* A variant of Fallback that puts a diagnostic in place of a failed unit.
FallbackDiag(u) ==
  IF u = "git" THEN [branch |-> "", status |-> ""] ELSE [text |-> "error"]

\* What replaces the result of a unit that raised: ("", "") for git, ""
\* for the other two.
Fallback(u) ==
  IF u = "git" THEN [branch |-> "", status |-> ""] ELSE [text |-> ""]

\* One SGR parameter of an escape sequence: an attribute, a 256-colour
\* foreground or a 256-colour background.
Sgr(k, n) == [k |-> k, n |-> n]

\* The tokens of T that render and SEP2 read, with their built-in styles
\* (gray_6 is colour 238, hi_black colour 8, R the reset).
DefaultT ==
  [branch_sign |-> <<Sgr("fg", 238)>>, branch_name |-> <<Sgr("fg", 238)>>,
   sep |-> <<Sgr("fg", 8)>>, R |-> <<Sgr("attr", 0)>>]

\* SEP2 = f" {T.sep}|{T.R} ", evaluated with the tokens t.
Sep2Of(t) ==
  <<[text |-> " ", style |-> <<>>], [text |-> "", style |-> t.sep],
    [text |-> "|", style |-> <<>>], [text |-> "", style |-> t.R],
    [text |-> " ", style |-> <<>>]>>

\* _ATTR_SGR.get(attr): the SGR number of a known attribute; -1 stands for
\* what the code skips, the empty string of "none" and the None of an
\* unknown name.
AttrSgr(attr) ==
  CASE attr = "dim" -> 2
    [] attr = "bold" -> 1
    [] attr = "italic" -> 3
    [] attr = "underline" -> 4
    [] attr = "reverse" -> 7
    [] OTHER -> -1

\* _build_ansi(entry): the attributes, then fg, then bg; -1 stands for a
\* missing or null fg or bg.
RECURSIVE AttrParts(_)
AttrParts(attrs) ==
  IF attrs = <<>> THEN <<>>
  ELSE (IF AttrSgr(Head(attrs)) # -1 THEN <<Sgr("attr", AttrSgr(Head(attrs)))>> ELSE <<>>)
       \o AttrParts(Tail(attrs))

BuildAnsi(entry) ==
  AttrParts(entry.attrs)
  \o (IF entry.fg # -1 THEN <<Sgr("fg", entry.fg)>> ELSE <<>>)
  \o (IF entry.bg # -1 THEN <<Sgr("bg", entry.bg)>> ELSE <<>>)

\* What THEME_FILE may hold: nothing (absent), text that is not JSON, JSON
\* that is not a dict of dicts, or a config from keys to entries.
NoConfig == [k \in {} |-> 0]
ThemeFiles ==
  { [kind |-> "absent", config |-> NoConfig],
    [kind |-> "garbage", config |-> NoConfig],
    [kind |-> "badshape", config |-> NoConfig],
    [kind |-> "config",
     config |-> [k \in {"branch_name"} |->
                   [attrs |-> <<"bold", "bogus", "none">>, fg |-> 4, bg |-> -1]]],
    [kind |-> "config",
     config |-> [k \in {"sep", "R", "bogus"} |->
                   [attrs |-> <<>>, fg |-> 1, bg |-> 7]]] }

\* Names hasattr finds on every class besides its own attributes (some of
\* what type and object provide), and those of them setattr cannot give a
\* string: assigning T.__class__ raises TypeError.
ClassAttrs == {"__doc__", "mro", "__class__"}
UnwritableAttrs == {"__class__"}

\* hasattr(T, key) for the tokens t.
HasAttr(t, key) == key \in DOMAIN t \/ key \in ClassAttrs

\* Whether _load_theme_config ends in an exception nothing catches: JSON
\* that is not a dict of dicts, or a key setattr refuses.
ThemeRaises(file) ==
  \/ file.kind = "badshape"
  \/ /\ file.kind = "config"
     /\ \E k \in DOMAIN file.config : k \in UnwritableAttrs

\* _load_theme_config on a file that is absent, unparseable or a config:
\* every key of the config that hasattr finds on T, R excepted, is set to
\* the string built from its entry, keys hasattr does not find are
\* skipped, and SEP2 is evaluated again.
LoadThemeConfig(th, file) ==
  IF file.kind # "config" THEN th
  ELSE LET set == {k \in DOMAIN file.config : HasAttr(th.T, k) /\ k # "R"}
           t2 == [tok \in DOMAIN th.T \cup set |->
                    IF tok \in set THEN BuildAnsi(file.config[tok]) ELSE th.T[tok]]
       IN [T |-> t2, SEP2 |-> Sep2Of(t2)]

\* The state after the module has been imported.
DefaultTheme == [T |-> DefaultT, SEP2 |-> Sep2Of(DefaultT)]

\* No function is being exercised alone.
FnIdle ==
  /\ theme = DefaultTheme
  /\ callIn = <<>>
  /\ callOut = <<>>
  /\ callDone = FALSE

\* What an invocation finds.  theme: the theme file.  On stdin, arrival: the
\* read returns within the second, the alarm fires, or the read fails; raw:
\* blank, not JSON, or JSON whose top is a dict or a list; ws is the value
\* under "workspace" and cur the value under "current_dir" in it: missing,
\* null, "", a path, or a truthy value that is not a string.
MInputs ==
  [theme : ThemeFiles,
   arrival : {"in_time", "timeout", "oserror"},
   raw : {"blank", "garbage", "json"},
   top : {"dict", "list"},
   ws : {"absent", "null", "str", "dict"},
   cur : {"absent", "null", "empty", "dir", "nonstr"}]

MainIdle ==
  /\ mIn = [theme |-> [kind |-> "absent", config |-> NoConfig],
            arrival |-> "in_time", raw |-> "blank", top |-> "dict",
            ws |-> "absent", cur |-> "absent"]
  /\ mpc = "exited"
  /\ mUnit = [u \in Units |-> "unsubmitted"]
  /\ mVal = [u \in Units |-> Fallback(u)]
  /\ mResults = [u \in Units |-> Fallback(u)]
  /\ mCollected = <<>>
  /\ mCi = [at |-> "notrun", label |-> ""]
  /\ mOut = <<>>
  /\ mExit = 1
  /\ mJob = "none"

Init == SysInit /\ CfIdle /\ PrIdle /\ AggIdle /\ CiIdle /\ MainIdle /\ FnIdle

\* ---- the clock -------------------------------------------------------------

Tick ==
  /\ ticks < MaxTicks
  /\ \E d \in TickSteps : now' = now + d
  /\ ticks' = ticks + 1
  /\ UNCHANGED <<ghEnv, ghFile, prFile, lockFile, locked, pc, gh, ret,
                 jpc, lastProbe, queryLog, replaced,
                 cfvars, hvars>>

\* ---- an invocation: get_pr_status ------------------------------------------

\* get_pr_status is entered: its first statement calls check_gh_available.
StartCall(i) ==
  /\ pc[i] \in {"idle", "done"}
  /\ pc' = [pc EXCEPT ![i] = "gh_check"]
  /\ gh' = [gh EXCEPT ![i] = ""]
  /\ ret' = [ret EXCEPT ![i] = EmptyOut]
  /\ UNCHANGED <<now, ticks, ghEnv, ghFile, prFile, lockFile, locked, jpc,
                 lastProbe, queryLog, replaced,
                 cfvars, hvars>>

\* A variant of AfterGh that treats only a missing tool as unavailable.
AfterGhAuthIgnored(i, value) ==
  /\ gh' = [gh EXCEPT ![i] = value]
  /\ IF value = "no-gh"
       THEN /\ ret' = [ret EXCEPT ![i] = DiagOut("gh not installed")]
            /\ pc' = [pc EXCEPT ![i] = "done"]
       ELSE /\ ret' = ret
            /\ pc' = [pc EXCEPT ![i] = "pr_fresh"]

\* What get_pr_status does with the value of check_gh_available: the two
\* diagnostics end the call, anything else goes on to the review cache.
AfterGh(i, value) ==
  /\ gh' = [gh EXCEPT ![i] = value]
  /\ IF value = "no-gh"
       THEN /\ ret' = [ret EXCEPT ![i] = DiagOut("gh not installed")]
            /\ pc' = [pc EXCEPT ![i] = "done"]
     ELSE IF value = "no-auth"
       THEN /\ ret' = [ret EXCEPT ![i] = DiagOut("gh auth login")]
            /\ pc' = [pc EXCEPT ![i] = "done"]
     ELSE /\ ret' = ret
          /\ pc' = [pc EXCEPT ![i] = "pr_fresh"]

\* check_gh_available, cached branch: exists, stat, read_text().strip().
GhCheckCached(i) ==
  /\ pc[i] = "gh_check"
  /\ IF ghFile.exists /\ (now - ghFile.mtime) < GH_CHECK_TTL
       THEN IF ghFile.text # ""
              THEN AfterGh(i, ghFile.text)
              ELSE /\ pc' = [pc EXCEPT ![i] = "gh_probe"]
                   /\ UNCHANGED <<gh, ret>>
       ELSE /\ pc' = [pc EXCEPT ![i] = "gh_probe"]
            /\ UNCHANGED <<gh, ret>>
  /\ UNCHANGED <<now, ticks, ghEnv, ghFile, prFile, lockFile, locked, jpc,
                 lastProbe, queryLog, replaced,
                 cfvars, hvars>>

\* check_gh_available, probe: shutil.which("gh"), then `gh auth status`.
GhProbe(i) ==
  /\ pc[i] = "gh_probe"
  /\ gh' = [gh EXCEPT ![i] = ghEnv]
  /\ lastProbe' = now
  /\ pc' = [pc EXCEPT ![i] = "gh_write_open"]
  /\ UNCHANGED <<now, ticks, ghEnv, ghFile, prFile, lockFile, locked,
                 ret, jpc, queryLog, replaced,
                 cfvars, hvars>>

\* What a file holds after new is written at offset 0 by a writer that
\* opened it before the present content was there: new, then whatever of
\* old lies beyond it.
Overwrite(old, new) ==
  IF Len(old) <= Len(new) THEN new
  ELSE new \o SubSeq(old, Len(new) + 1, Len(old))

\* GH_AVAILABLE_FILE.write_text(...), first half: open(path, "w") truncates.
GhWriteOpen(i) ==
  /\ pc[i] = "gh_write_open"
  /\ ghFile' = [exists |-> TRUE, text |-> "", mtime |-> now]
  /\ pc' = [pc EXCEPT ![i] = "gh_write_data"]
  /\ UNCHANGED <<now, ticks, ghEnv, prFile, lockFile, locked, gh, ret,
                 jpc, lastProbe, queryLog, replaced,
                 cfvars, hvars>>

\* write_text, second half: the text is written at the start of the file and
\* the file closed; then check_gh_available returns the probe's value.
GhWriteData(i) ==
  /\ pc[i] = "gh_write_data"
  /\ ghFile' = [exists |-> TRUE, text |-> Overwrite(ghFile.text, gh[i]),
                mtime |-> now]
  /\ AfterGh(i, gh[i])
  /\ UNCHANGED <<now, ticks, ghEnv, prFile, lockFile, locked, jpc,
                 lastProbe, queryLog, replaced,
                 cfvars, hvars>>


\* A job slot holds no process: none yet, or the last one has exited
\* (status 0, status 1 after an uncaught exception) or was killed.
Ended == {"none", "exit0", "exit1", "killed"}

\* Popen of the refresh script: a new detached process, in a free job slot.
\* The guard on a free slot caps the number of jobs alive at once at MaxJobs.
Spawn(j) ==
  /\ jpc[j] \in Ended
  /\ jpc' = [jpc EXCEPT ![j] = "open"]
  /\ replaced' = replaced \ {j}

\* get_pr_status: if the review cache is not fresh, start the refresh job.
PrFreshCheck(i) ==
  /\ pc[i] = "pr_fresh"
  /\ IF is_cache_fresh(prFile, PR_CACHE_TTL, now)
       THEN UNCHANGED <<jpc, replaced>>
       ELSE \E j \in Jobs : Spawn(j)
  /\ pc' = [pc EXCEPT ![i] = "pr_read"]
  /\ UNCHANGED <<now, ticks, ghEnv, ghFile, prFile, lockFile, locked, gh, ret, lastProbe, queryLog,
                 cfvars, hvars>>

\* A variant of PrRead that queries the remote itself when the cache misses.
PrReadFetchInline(i) ==
  /\ pc[i] = "pr_read"
  /\ ret' = [ret EXCEPT ![i] =
               IF prFile.exists THEN PrRender(prFile.doc) ELSE EmptyOut]
  /\ queryLog' = IF prFile.exists THEN queryLog
                 ELSE queryLog \cup {[by |-> "invocation", id |-> i,
                                      kind |-> "reviews", held |-> FALSE]}
  /\ pc' = [pc EXCEPT ![i] = "done"]
  /\ UNCHANGED <<now, ticks, ghEnv, ghFile, prFile, lockFile, locked, gh, jpc, lastProbe, replaced,
                 cfvars, hvars>>

\* get_pr_status: read whatever document is on disk and render it.
PrRead(i) ==
  /\ pc[i] = "pr_read"
  /\ ret' = [ret EXCEPT ![i] =
               IF prFile.exists THEN PrRender(prFile.doc) ELSE EmptyOut]
  /\ pc' = [pc EXCEPT ![i] = "done"]
  /\ UNCHANGED <<now, ticks, ghEnv, ghFile, prFile, lockFile, locked, gh, jpc, lastProbe, queryLog, replaced,
                 cfvars, hvars>>

\* ---- the refresh job: the script of _refresh_pr_cache_subprocess -----------

\* The names bound in the script's own namespace when its try block starts:
\* its imports and its four assignments.  The script is a separate program,
\* run by `python -c`; the constants of omcc-statusline.py are not among them.
ScriptNames ==
  {"fcntl", "json", "os", "subprocess", "sys", "Path",
   "CACHE_DIR", "LOCK", "CACHE", "fd"}

\* The names the first subprocess.run call of the try block evaluates.
GqlCallNames == {"subprocess", "GH_PR_FETCH_LIMIT", "TIMEOUT_GH_API"}

\* CACHE_DIR.mkdir(...); fd = os.open(LOCK, O_WRONLY | O_CREAT).
JobOpen(j) ==
  /\ jpc[j] = "open"
  /\ lockFile' = TRUE
  /\ jpc' = [jpc EXCEPT ![j] = "flock"]
  /\ UNCHANGED <<now, ticks, ghEnv, ghFile, prFile, locked, pc, gh,
                 ret, lastProbe, queryLog, replaced,
                 cfvars, hvars>>

\* A variant of CanLock that grants the lock whoever holds it.
CanLockAlways(j) == TRUE

\* flock(fd, LOCK_EX | LOCK_NB) succeeds iff no other descriptor holds the lock.
CanLock(j) == locked \subseteq {j}

\* A variant of JobFlock that goes on into the try block without the lock.
JobFlockProceeds(j) ==
  /\ jpc[j] = "flock"
  /\ locked' = IF CanLock(j) THEN locked \cup {j} ELSE locked
  /\ jpc' = [jpc EXCEPT ![j] = "try"]
  /\ UNCHANGED <<now, ticks, ghEnv, ghFile, prFile, lockFile, pc, gh,
                 ret, lastProbe, queryLog, replaced,
                 cfvars, hvars>>

\* The non-blocking lock attempt; BlockingIOError leads to sys.exit(0).
JobFlock(j) ==
  /\ jpc[j] = "flock"
  /\ IF CanLock(j)
       THEN /\ locked' = locked \cup {j}
            /\ jpc' = [jpc EXCEPT ![j] = "try"]
       ELSE /\ locked' = locked
            /\ jpc' = [jpc EXCEPT ![j] = "exit0"]
  /\ UNCHANGED <<now, ticks, ghEnv, ghFile, prFile, lockFile, pc, gh,
                 ret, lastProbe, queryLog, replaced,
                 cfvars, hvars>>

\* The try block.  Building the argument list of the first subprocess.run
\* looks up GH_PR_FETCH_LIMIT in the script's namespace; an unbound name
\* raises NameError and control passes to the finally block.  With the names
\* bound, the block runs the two remote queries and, unless one of them
\* raises (ok = FALSE), dumps the result to pr-status.json.tmp.<pid> and
\* renames it over pr-status.json.  "finally" is the finally block entered
\* with an exception pending, "finally_ok" the one entered normally.
JobBody(j) ==
  /\ jpc[j] = "try"
  /\ IF GqlCallNames \subseteq ScriptNames
       THEN \E d \in Docs, ok \in BOOLEAN :
              /\ queryLog' = queryLog \cup
                   {[by |-> "job", id |-> j, kind |-> k, held |-> j \in locked] :
                      k \in {"reviews", "notifications"}}
              /\ IF ok
                   THEN /\ prFile' = [exists |-> TRUE,
                                      doc |-> [d EXCEPT !.updated_at = now],
                                      mtime |-> now]
                        /\ replaced' = replaced \cup {j}
                   ELSE UNCHANGED <<prFile, replaced>>
              /\ jpc' = [jpc EXCEPT ![j] = IF ok THEN "finally_ok" ELSE "finally"]
       ELSE /\ UNCHANGED <<queryLog, prFile, replaced>>
            /\ jpc' = [jpc EXCEPT ![j] = "finally"]
  /\ UNCHANGED <<now, ticks, ghEnv, ghFile, lockFile, locked, pc, gh,
                 ret, lastProbe,
                 cfvars, hvars>>

\* A variant of JobFinally that leaves without unlocking, the descriptor
\* being inherited by something that lives on.
JobFinallyKeepsLock(j) ==
  /\ jpc[j] \in {"finally", "finally_ok"}
  /\ jpc' = [jpc EXCEPT ![j] = IF jpc[j] = "finally" THEN "exit1" ELSE "exit0"]
  /\ UNCHANGED <<now, ticks, ghEnv, ghFile, prFile, lockFile, locked, pc, gh, ret, lastProbe, queryLog, replaced,
                 cfvars, hvars>>

\* finally: flock(fd, LOCK_UN); os.close(fd); then the process ends, with
\* status 1 and a traceback if an exception was pending.
JobFinally(j) ==
  /\ jpc[j] \in {"finally", "finally_ok"}
  /\ locked' = locked \ {j}
  /\ jpc' = [jpc EXCEPT ![j] = IF jpc[j] = "finally" THEN "exit1" ELSE "exit0"]
  /\ UNCHANGED <<now, ticks, ghEnv, ghFile, prFile, lockFile, pc, gh,
                 ret, lastProbe, queryLog, replaced,
                 cfvars, hvars>>

\* The job is terminated from outside at any point: the kernel closes its
\* descriptor, which drops the flock.
JobKilled(j) ==
  /\ jpc[j] \in {"open", "flock", "try", "finally", "finally_ok"}
  /\ locked' = locked \ {j}
  /\ jpc' = [jpc EXCEPT ![j] = "killed"]
  /\ UNCHANGED <<now, ticks, ghEnv, ghFile, prFile, lockFile, pc, gh,
                 ret, lastProbe, queryLog, replaced,
                 cfvars, hvars>>

\* ---- is_cache_fresh on its own ---------------------------------------------

CfPaths == {MissingPath} \cup {[exists |-> TRUE, mtime |-> m] : m \in 0..MaxMtime}
CfTtls == {PR_CACHE_TTL, CI_CACHE_TTL, GH_CHECK_TTL}
\* Clock readings around every TTL, so that ages fall on both sides of it.
CfNows == UNION {(t - 2)..(t + MaxMtime + 2) : t \in CfTtls} \cup (0..MaxMtime)

CfInit ==
  /\ cfPath \in CfPaths
  /\ cfTtl \in CfTtls
  /\ cfNow \in CfNows
  /\ cfResult = "none"

\* One call is_cache_fresh(path, ttl) at clock reading cfNow.
CfCall ==
  /\ cfResult = "none"
  /\ cfResult' = IF is_cache_fresh(cfPath, cfTtl, cfNow) THEN "fresh" ELSE "stale"
  /\ UNCHANGED <<cfPath, cfTtl, cfNow, sysvars, hvars>>

\* The next call, with other arguments.
CfNewCall ==
  /\ cfResult # "none"
  /\ cfPath' \in CfPaths
  /\ cfTtl' \in CfTtls
  /\ cfNow' \in CfNows
  /\ cfResult' = "none"
  /\ UNCHANGED <<sysvars, hvars>>

CfNext ==
  \/ CfCall
  \/ CfNewCall

\* ---- get_pr_status from the parsed document on, one call at a time --------

PrMaxNodes == 3

\* The lists of at most n open reviews, with every rollup shape and state.
RECURSIVE PrNodeLists(_)
PrNodeLists(n) ==
  IF n = 0 THEN {<<>>}
  ELSE PrNodeLists(n - 1)
       \cup {Append(ns, PrNode(BrPr, r)) :
               ns \in {l \in PrNodeLists(n - 1) : Len(l) = n - 1}, r \in Rolls}

\* Parsed documents: with or without the unread_count key.
PrDocs ==
  {[nodes |-> ns, unread_count |-> u, updated_at |-> 0] :
     ns \in PrNodeLists(PrMaxNodes), u \in {0, 3}}
  \cup {[nodes |-> ns, updated_at |-> 0] : ns \in PrNodeLists(PrMaxNodes)}

PrInit ==
  /\ prDoc \in PrDocs
  /\ prOut = EmptyOut
  /\ prDone = FALSE

\* Lines 471-517 on the document.
PrCall ==
  /\ ~prDone
  /\ prOut' = PrRender(prDoc)
  /\ prDone' = TRUE
  /\ UNCHANGED <<prDoc, sysvars, cfvars, aggvars, civars, mainvars, fnvars>>

PrNext == PrCall

\* ---- the aggregation of a check-runs list in get_ci_status ------------------

AggMaxRuns == 2

\* r.get("status") and r.get("conclusion") of one check run; "null" stands
\* for None (a null or absent key).
RunStatuses == {"queued", "in_progress", "completed", "null"}
RunConclusions == {"null", "success", "failure", "timed_out", "cancelled",
                   "action_required", "neutral", "skipped"}
Runs == [status : RunStatuses, conclusion : RunConclusions]

RunLists == UNION {[1..n -> Runs] : n \in 1..AggMaxRuns}

FailConclusions == {"failure", "timed_out", "cancelled", "action_required"}

\* Lines 621-631: the if/elif chain over conclusions and statuses.
Aggregate(runs) ==
  LET idx == 1..Len(runs) IN
  IF \E k \in idx : runs[k].conclusion \in FailConclusions THEN "failure"
  ELSE IF /\ \A k \in idx : runs[k].conclusion # "null"
                                => runs[k].conclusion = "success"
          /\ \A k \in idx : runs[k].status = "completed" THEN "success"
  ELSE IF \E k \in idx : runs[k].status \in {"queued", "in_progress"} THEN "pending"
  ELSE "unknown"

AggInit ==
  /\ aggRuns \in RunLists
  /\ aggResult = "none"

AggCall ==
  /\ aggResult = "none"
  /\ aggResult' = Aggregate(aggRuns)
  /\ UNCHANGED <<aggRuns, sysvars, cfvars, prvars, civars, mainvars, fnvars>>

AggNext == AggCall

\* ---- get_ci_status, one call after the other -------------------------------

CiMaxCalls == 3
CiMaxTicks == 2
CiMaxEnvChanges == 1

\* The clock advances by a second, by the CI TTL, or to one second before
\* the availability marker expires.
CiTickSteps == {1, CI_CACHE_TTL, GH_CHECK_TTL - 1}

\* Outcomes of the check-runs call: run returns None, output that is not
\* JSON, or a list of runs.
CiApiOuts ==
  { [kind |-> "none", runs |-> <<>>],
    [kind |-> "garbage", runs |-> <<>>],
    [kind |-> "runs", runs |-> <<>>],
    [kind |-> "runs", runs |-> <<[status |-> "completed", conclusion |-> "success"]>>] }

\* _format_ci_label: the colour of the CI label, "" for no label.
FormatCiLabel(conclusion) ==
  CASE conclusion = "success" -> "ci_ok"
    [] conclusion = "failure" -> "ci_fail"
    [] conclusion = "pending" -> "ci_wait"
    [] OTHER -> ""

\* The mapping of _ci_from_pr_cache from rollup state to conclusion.
PrCacheMapping(state) ==
  CASE state = "SUCCESS" -> "success"
    [] state \in {"FAILURE", "ERROR"} -> "failure"
    [] state \in {"PENDING", "EXPECTED"} -> "pending"
    [] OTHER -> ""

\* A variant of _ci_from_pr_cache that never finds the branch.
CiFromPrCacheNever(f, branch) == [found |-> FALSE, label |-> ""]

\* _ci_from_pr_cache(branch) on pr-status.json f: the first review whose
\* headRefName is the branch decides; None when there is none.
CiFromPrCache(f, branch) ==
  IF ~f.exists THEN [found |-> FALSE, label |-> ""]
  ELSE LET ns == f.doc.nodes
           hits == {k \in 1..Len(ns) : ns[k].head = branch}
       IN IF hits = {} THEN [found |-> FALSE, label |-> ""]
          ELSE LET node == ns[CHOOSE k \in hits : \A h \in hits : k <= h]
               IN [found |-> TRUE,
                   label |-> IF node.roll \in {"nocommits", "norollup"}
                               THEN FormatCiLabel("pending")
                               ELSE FormatCiLabel(PrCacheMapping(node.roll))]

\* f"{owner}_{repo}_{branch}.json"
CacheName(owner, repo, branch) ==
  owner \o <<"_">> \o repo \o <<"_">> \o branch \o <<".", "j", "s", "o", "n">>

\* CI_CACHE_DIR / name lies in a subdirectory when name holds a slash; the
\* program creates CI_CACHE_DIR only, so that directory does not exist.
InMissingDir(name) == \E k \in 1..Len(name) : name[k] = "/"

\* The file CI_CACHE_DIR / name as is_cache_fresh sees it.
CiPath(name) ==
  IF name \in DOMAIN ciFiles
    THEN [exists |-> TRUE, mtime |-> ciFiles[name].mtime]
    ELSE MissingPath

\* The cache directory may hold an entry cut short by an earlier write.
CiInit ==
  /\ ciFiles \in {<<>>,
                   [n \in {CacheName(<<"a">>, <<"c">>, BrMain)} |->
                      [text |-> "garbage", mtime |-> 0]]}
  /\ ciFetched = [k \in CiKeys |-> -1]
  /\ ciLast = CiNoCall
  /\ ciEnvChanges = 0

CiTick ==
  /\ ticks < CiMaxTicks
  /\ \E d \in CiTickSteps : now' = now + d
  /\ ticks' = ticks + 1
  /\ UNCHANGED <<ghEnv, ghFile, prFile, lockFile, locked, pc, gh, ret, jpc,
                 lastProbe, queryLog, replaced, cfvars, prvars, aggvars, civars,
                 mainvars, fnvars>>

\* The user logs gh in or out, or installs or removes it.
CiEnvChange ==
  /\ ciEnvChanges < CiMaxEnvChanges
  /\ ghEnv' \in GhStates \ {ghEnv}
  /\ ciEnvChanges' = ciEnvChanges + 1
  /\ UNCHANGED <<now, ticks, ghFile, prFile, lockFile, locked, pc, gh, ret, jpc,
                 lastProbe, queryLog, replaced, cfvars, prvars, aggvars,
                 ciFiles, ciFetched, ciLast, mainvars, fnvars>>

\* A variant of CiWrites that caches a null conclusion for a failed call.
CiWritesAfterFailure(callApi, api, name) ==
  callApi /\ ~InMissingDir(name)

\* Whether the call ends by putting a conclusion into the per-branch file:
\* only past the two early returns of lines 606-612, and only if write_text
\* succeeds.
CiWrites(callApi, api, name) ==
  callApi /\ api.kind = "runs" /\ ~InMissingDir(name)

\* One call get_ci_status(cwd, branch): rem is what the origin remote of cwd
\* resolves to, api what the check-runs call would return (nothing, unless
\* gh is installed and logged in).
CiCall(branch, rem, api) ==
  /\ ciLast.n < CiMaxCalls
  /\ ghEnv # "ok" => api.kind = "none"
  /\ LET fromPr == CiFromPrCache(prFile, branch)
         askGh == branch # <<>> /\ ~fromPr.found
         ghCached == /\ ghFile.exists
                     /\ (now - ghFile.mtime) < GH_CHECK_TTL
                     /\ ghFile.text # ""
         ghv == IF ghCached THEN ghFile.text ELSE ghEnv
         haveKey == askGh /\ ghv = "ok" /\ rem.ok
         name == CacheName(rem.owner, rem.repo, branch)
         key == [owner |-> rem.owner, repo |-> rem.repo, branch |-> branch]
         fresh == haveKey /\ is_cache_fresh(CiPath(name), CI_CACHE_TTL, now)
         useEntry == fresh /\ ciFiles[name].text # "garbage"
         callApi == haveKey /\ ~useEntry
         parsed == callApi /\ api.kind = "runs"
         concl == IF api.runs = <<>> THEN "null" ELSE Aggregate(api.runs)
         written == CiWrites(callApi, api, name)
         label == IF branch = <<>> THEN ""
                  ELSE IF fromPr.found THEN fromPr.label
                  ELSE IF useEntry THEN FormatCiLabel(ciFiles[name].text)
                  ELSE IF parsed THEN FormatCiLabel(concl)
                  ELSE ""
         entry == IF branch = <<>> \/ ~rem.ok THEN "nokey"
                  ELSE IF name \notin DOMAIN ciFiles THEN "absent"
                  ELSE IF ~is_cache_fresh(CiPath(name), CI_CACHE_TTL, now) THEN "stale"
                  ELSE IF ciFiles[name].text = "garbage" THEN "unreadable"
                  ELSE "fresh"
     IN /\ ghFile' = IF askGh /\ ~ghCached
                        THEN [exists |-> TRUE, text |-> ghEnv, mtime |-> now]
                        ELSE ghFile
        /\ lastProbe' = IF askGh /\ ~ghCached THEN now ELSE lastProbe
        /\ ciFiles' = IF written
                         THEN [n \in DOMAIN ciFiles \cup {name} |->
                                 IF n = name THEN [text |-> concl, mtime |-> now]
                                 ELSE ciFiles[n]]
                         ELSE ciFiles
        /\ ciFetched' = IF parsed THEN [ciFetched EXCEPT ![key] = now] ELSE ciFetched
        /\ ciLast' = [n |-> ciLast.n + 1, branch |-> branch, rem |-> rem, at |-> now,
                      entry |-> entry,
                      prevFetch |-> IF branch # <<>> /\ rem.ok THEN ciFetched[key] ELSE -1,
                      ghv |-> IF askGh THEN ghv ELSE "",
                      prHit |-> branch # <<>> /\ fromPr.found,
                      ciRead |-> fresh,
                      remote |-> IF callApi THEN 1 ELSE 0,
                      api |-> IF callApi THEN api.kind ELSE "nocall",
                      label |-> label]
  /\ UNCHANGED <<now, ticks, ghEnv, prFile, lockFile, locked, pc, gh, ret, jpc,
                 queryLog, replaced, cfvars, prvars, aggvars, ciEnvChanges,
                 mainvars, fnvars>>

CiNext ==
  \/ CiTick
  \/ CiEnvChange
  \/ \E b \in CiBranches, r \in CiRemotes, a \in CiApiOuts : CiCall(b, r, a)

\* ---- main: one invocation from stdin to exit -------------------------------

\* A piece of output: literal text, or the escape sequence of a style.
Txt(text) == [text |-> text, style |-> <<>>]
Sty(style) == [text |-> "", style |-> style]

\* A variant of render that appends the indicators outside the branch test.
RenderIndicatorsAlways(dir_name, branch, git_status, ci_label, pr_status, ccusage_line) ==
  [line1 |-> ccusage_line,
   line2 |-> <<Txt(dir_name)>>
             \o (IF branch # ""
                   THEN <<Txt(" "), Sty(theme.T.branch_sign), Txt("BRANCH_LABEL"),
                          Sty(theme.T.R), Sty(theme.T.branch_name), Txt(branch),
                          Sty(theme.T.R)>>
                   ELSE <<>>)
             \o (IF git_status # "" THEN <<Txt(git_status)>> ELSE <<>>)
             \o (IF ci_label # "" THEN <<Txt(" "), Txt(ci_label)>> ELSE <<>>)
             \o (IF pr_status # "" THEN theme.SEP2 \o <<Txt(pr_status)>> ELSE <<>>)]

\* render: line one is the usage line; line two the directory, then " ",
\* the branch glyph and name in their styles and the indicators, then " "
\* and the CI label, then SEP2 and the dots.  The styles are those of T,
\* and SEP2 is the global, at the time of the call.
Render(dir_name, branch, git_status, ci_label, pr_status, ccusage_line) ==
  [line1 |-> ccusage_line,
   line2 |-> <<Txt(dir_name)>>
             \o (IF branch # ""
                   THEN <<Txt(" "), Sty(theme.T.branch_sign), Txt("BRANCH_LABEL"),
                          Sty(theme.T.R), Sty(theme.T.branch_name), Txt(branch),
                          Sty(theme.T.R)>>
                        \o (IF git_status # "" THEN <<Txt(git_status)>> ELSE <<>>)
                   ELSE <<>>)
             \o (IF ci_label # "" THEN <<Txt(" "), Txt(ci_label)>> ELSE <<>>)
             \o (IF pr_status # "" THEN theme.SEP2 \o <<Txt(pr_status)>> ELSE <<>>)]

\* The input gets past lines 769-800: read in time, JSON, and
\* data.get("workspace", {}).get("current_dir") is a non-empty string.
Validates(in) ==
  /\ in.arrival = "in_time"
  /\ in.raw = "json"
  /\ in.top = "dict"
  /\ in.ws = "dict"
  /\ in.cur = "dir"

MainInit ==
  /\ mIn \in MInputs
  /\ mpc = "load"
  /\ mUnit = [u \in Units |-> "unsubmitted"]
  /\ mVal = [u \in Units |-> Fallback(u)]
  /\ mResults = [u \in Units |-> Fallback(u)]
  /\ mCollected = <<>>
  /\ mCi = [at |-> "notrun", label |-> ""]
  /\ mOut = <<>>
  /\ mExit = -1
  /\ mJob = "none"

\* Line 763: _load_theme_config().  A theme file that parses but is not a
\* dict of dicts raises AttributeError (config.items, entry.get), and a key
\* setattr refuses raises TypeError; nothing catches them: traceback on
\* stderr, exit status 1.
MLoadTheme ==
  /\ mpc = "load"
  /\ IF ThemeRaises(mIn.theme)
       THEN mpc' = "exited" /\ mExit' = 1 /\ theme' = theme
       ELSE mpc' = "start" /\ mExit' = mExit
            /\ theme' = LoadThemeConfig(theme, mIn.theme)
  /\ UNCHANGED <<mIn, mUnit, mVal, mResults, mCollected, mCi, mOut, mJob,
                 sysvars, cfvars, prvars, aggvars, civars,
                 callIn, callOut, callDone>>

\* A variant of MStart that lets an empty current_dir through.
MStartAcceptsEmpty ==
  /\ mpc = "start"
  /\ IF Validates(mIn) \/ (mIn.cur = "empty" /\ Validates([mIn EXCEPT !.cur = "dir"]))
       THEN mpc' = "pool" /\ mExit' = mExit
       ELSE mpc' = "exited" /\ mExit' = 1
  /\ UNCHANGED <<mIn, mUnit, mVal, mResults, mCollected, mCi, mOut, mJob,
                 sysvars, cfvars, prvars, aggvars, civars, fnvars>>

\* Lines 769-803: read stdin under the alarm, parse, extract current_dir.
\* Every failure ends the process with status 1 and a message on stderr:
\* sys.exit(1) for a timeout, a failed read, blank input, invalid JSON or a
\* falsy current_dir; an uncaught AttributeError when the document or its
\* workspace value is not a dict; an uncaught TypeError in get_dir_name
\* when current_dir is truthy but not a string.
MStart ==
  /\ mpc = "start"
  /\ IF Validates(mIn)
       THEN mpc' = "pool" /\ mExit' = mExit
       ELSE mpc' = "exited" /\ mExit' = 1
  /\ UNCHANGED <<mIn, mUnit, mVal, mResults, mCollected, mCi, mOut, mJob,
                 sysvars, cfvars, prvars, aggvars, civars, fnvars>>

\* Lines 817-822: the three submits.
MSubmit ==
  /\ mpc = "pool"
  /\ mUnit' = [u \in Units |-> "running"]
  /\ mpc' = "collect"
  /\ UNCHANGED <<mIn, mVal, mResults, mCollected, mCi, mOut, mExit, mJob,
                 sysvars, cfvars, prvars, aggvars, civars, fnvars>>

\* A worker thread finishes its unit: it returns v or, if boom, raises.
\* get_pr_status may have started a detached refresh job on its way.
UnitEnd(u, v, boom, spawn) ==
  /\ mUnit[u] = "running"
  /\ mUnit' = [mUnit EXCEPT ![u] = IF boom THEN "raised" ELSE "returned"]
  /\ mVal' = [mVal EXCEPT ![u] = IF boom THEN Fallback(u) ELSE v]
  /\ mJob' = IF u = "pr" /\ spawn THEN "running" ELSE mJob
  /\ UNCHANGED <<mIn, mpc, mResults, mCollected, mCi, mOut, mExit,
                 sysvars, cfvars, prvars, aggvars, civars, fnvars>>

\* Lines 824-829: as_completed yields a finished future; its result, or the
\* fallback if it raised, goes into results.
MCollect(u) ==
  /\ mpc = "collect"
  /\ \A k \in 1..Len(mCollected) : mCollected[k] # u
  /\ mUnit[u] \in {"returned", "raised"}
  /\ mResults' = [mResults EXCEPT ![u] = IF mUnit[u] = "raised" THEN Fallback(u)
                                         ELSE mVal[u]]
  /\ mCollected' = Append(mCollected, u)
  /\ UNCHANGED <<mIn, mpc, mUnit, mVal, mCi, mOut, mExit, mJob,
                 sysvars, cfvars, prvars, aggvars, civars, fnvars>>

\* A variant of MAfterPool that resolves the CI status whatever the branch.
MAfterPoolAlwaysCi ==
  /\ mpc = "collect"
  /\ Len(mCollected) = Cardinality(Units)
  /\ mpc' = "ci"
  /\ mCi' = [at |-> "running", label |-> ""]
  /\ UNCHANGED <<mIn, mUnit, mVal, mResults, mCollected, mOut, mExit, mJob,
                 sysvars, cfvars, prvars, aggvars, civars, fnvars>>

\* Lines 824-836: the loop ends when every future has been yielded; then
\* the branch decides whether get_ci_status is called.
MAfterPool ==
  /\ mpc = "collect"
  /\ Len(mCollected) = Cardinality(Units)
  /\ IF mResults["git"].branch # ""
       THEN mpc' = "ci" /\ mCi' = [at |-> "running", label |-> ""]
       ELSE mpc' = "render" /\ mCi' = mCi
  /\ UNCHANGED <<mIn, mUnit, mVal, mResults, mCollected, mOut, mExit, mJob,
                 sysvars, cfvars, prvars, aggvars, civars, fnvars>>

\* Lines 838-841: get_ci_status returns a label, or raises and the label
\* stays empty.
MCiEnd(label, boom) ==
  /\ mpc = "ci"
  /\ mCi' = [at |-> "done", label |-> IF boom THEN "" ELSE label]
  /\ mpc' = "render"
  /\ UNCHANGED <<mIn, mUnit, mVal, mResults, mCollected, mOut, mExit, mJob,
                 sysvars, cfvars, prvars, aggvars, civars, fnvars>>

\* A variant of MPrint that waits for the refresh job to end.
MPrintAfterJob ==
  /\ mpc = "render"
  /\ mJob # "running"
  /\ mOut' = Append(mOut, Render("dir", mResults["git"].branch,
                                  mResults["git"].status, mCi.label,
                                  mResults["pr"].text, mResults["ccusage"].text))
  /\ mpc' = "exited"
  /\ mExit' = 0
  /\ UNCHANGED <<mIn, mUnit, mVal, mResults, mCollected, mCi, mJob,
                 sysvars, cfvars, prvars, aggvars, civars, fnvars>>

\* Line 843, and the return of main: print(render(...)), exit status 0.
MPrint ==
  /\ mpc = "render"
  /\ mOut' = Append(mOut, Render("dir", mResults["git"].branch,
                                  mResults["git"].status, mCi.label,
                                  mResults["pr"].text, mResults["ccusage"].text))
  /\ mpc' = "exited"
  /\ mExit' = 0
  /\ UNCHANGED <<mIn, mUnit, mVal, mResults, mCollected, mCi, mJob,
                 sysvars, cfvars, prvars, aggvars, civars, fnvars>>

\* The detached refresh job ends, whenever it does.
MJobEnd ==
  /\ mJob = "running"
  /\ mJob' = "ended"
  /\ UNCHANGED <<mIn, mpc, mUnit, mVal, mResults, mCollected, mCi, mOut, mExit,
                 sysvars, cfvars, prvars, aggvars, civars, fnvars>>

MainNext ==
  \/ MLoadTheme
  \/ MStart
  \/ MSubmit
  \/ \E u \in Units : \E v \in UnitVals(u) : \E boom, spawn \in BOOLEAN :
       UnitEnd(u, v, boom, spawn)
  \/ \E u \in Units : MCollect(u)
  \/ MAfterPool
  \/ \E label \in {"", "ci_ok"}, boom \in BOOLEAN : MCiEnd(label, boom)
  \/ MPrint
  \/ MJobEnd

\* The main thread runs on; every unit ends, since each subprocess call ends
\* by completing or by its timeout; the detached job is under no obligation.
MainFairness ==
  /\ WF_vars(MLoadTheme)
  /\ WF_vars(MStart)
  /\ WF_vars(MSubmit)
  /\ \A u \in Units : WF_vars(\E v \in UnitVals(u) : \E boom, spawn \in BOOLEAN :
                                  UnitEnd(u, v, boom, spawn))
  /\ \A u \in Units : WF_vars(MCollect(u))
  /\ WF_vars(MAfterPool)
  /\ WF_vars(\E label \in {"", "ci_ok"}, boom \in BOOLEAN : MCiEnd(label, boom))
  /\ WF_vars(MPrint)

\* ---- the harness specifications ---------------------------------------------

\* The rest of the system stands still, in one of its initial states.
SysIdle == SysInit /\ ghEnv = "ok" /\ ~prFile.exists

CfStart == SysIdle /\ CfInit /\ PrIdle /\ AggIdle /\ CiIdle /\ MainIdle /\ FnIdle

CfSpec == CfStart /\ [][CfNext]_vars

PrStart == SysIdle /\ CfIdle /\ PrInit /\ AggIdle /\ CiIdle /\ MainIdle /\ FnIdle

PrSpec == PrStart /\ [][PrNext]_vars

AggStart == SysIdle /\ CfIdle /\ PrIdle /\ AggInit /\ CiIdle /\ MainIdle /\ FnIdle

\* get_ci_status runs alone: no invocation of get_pr_status, no refresh job.
\* gh starts installed and logged in; pr-status.json is absent or holds reviews.
CiStart ==
  /\ SysInit
  /\ ghEnv = "ok"
  /\ prFile.exists => prFile.doc # NoDoc
  /\ CfIdle /\ PrIdle /\ AggIdle /\ CiInit /\ MainIdle /\ FnIdle

CiSpec == CiStart /\ [][CiNext]_vars

MainStart == SysIdle /\ CfIdle /\ PrIdle /\ AggIdle /\ CiIdle /\ MainInit /\ FnIdle

MainSpec == MainStart /\ [][MainNext]_vars

FairMainSpec == MainSpec /\ MainFairness

AggSpec == AggStart /\ [][AggNext]_vars

\* Every harness of one function starts with the rest of the system at rest.
RestIdle == SysIdle /\ CfIdle /\ PrIdle /\ AggIdle /\ CiIdle /\ MainIdle

\* ---- get_ccusage -----------------------------------------------------------

TIMEOUT_CCUSAGE == 30
STDERR_MAX_LEN == 50

\* What the call finds: whether shutil.which sees bun, and how subprocess.run
\* ends: an exit with a status, a stdout that is blank or not once stripped
\* and a stderr of some stripped length, or one of the three exceptions.
CcExits ==
  [kind : {"exit"}, rc : {0, 1, 2, 127}, stdout : {"", "usage"},
   stderrLen : {0, 3, STDERR_MAX_LEN, STDERR_MAX_LEN + 1}]
CcRaises ==
  [kind : {"timeout", "notfound", "oserror"}, rc : {-1}, stdout : {""},
   stderrLen : {0}]
CcInputs == [which : {"found", "missing"}, end : CcExits \cup CcRaises]

\* The returned string between T.err and T.R: a text, then for a diagnostic
\* the number it shows (-1: none) and the number of stderr characters in
\* the hint (-1: no hint) with cut telling that an ellipsis follows them.
CcLine(text, num, shown, cut) ==
  [text |-> text, num |-> num, shown |-> shown, cut |-> cut]

\* A variant of get_ccusage that returns the empty string on a timeout.
GetCcusageSilentTimeout(in) ==
  IF in.which = "missing" THEN CcLine("bun not found", -1, -1, FALSE)
  ELSE CASE in.end.kind = "timeout" -> CcLine("", -1, -1, FALSE)
         [] in.end.kind = "notfound" -> CcLine("bun not found", -1, -1, FALSE)
         [] in.end.kind = "oserror" -> CcLine("ccusage OS error", -1, -1, FALSE)
         [] OTHER ->
              IF in.end.rc = 0 /\ in.end.stdout # ""
                THEN CcLine(in.end.stdout, -1, -1, FALSE)
                ELSE IF in.end.stderrLen = 0
                  THEN CcLine("ccusage code", in.end.rc, -1, FALSE)
                  ELSE IF in.end.stderrLen <= STDERR_MAX_LEN
                    THEN CcLine("ccusage code", in.end.rc, in.end.stderrLen, FALSE)
                    ELSE CcLine("ccusage code", in.end.rc, STDERR_MAX_LEN - 3, TRUE)

\* get_ccusage, lines 655-684.
GetCcusage(in) ==
  IF in.which = "missing" THEN CcLine("bun not found", -1, -1, FALSE)
  ELSE CASE in.end.kind = "timeout" ->
              CcLine("ccusage timeout", TIMEOUT_CCUSAGE, -1, FALSE)
         [] in.end.kind = "notfound" -> CcLine("bun not found", -1, -1, FALSE)
         [] in.end.kind = "oserror" -> CcLine("ccusage OS error", -1, -1, FALSE)
         [] OTHER ->
              IF in.end.rc = 0 /\ in.end.stdout # ""
                THEN CcLine(in.end.stdout, -1, -1, FALSE)
                ELSE IF in.end.stderrLen = 0
                  THEN CcLine("ccusage code", in.end.rc, -1, FALSE)
                  ELSE IF in.end.stderrLen <= STDERR_MAX_LEN
                    THEN CcLine("ccusage code", in.end.rc, in.end.stderrLen, FALSE)
                    ELSE CcLine("ccusage code", in.end.rc, STDERR_MAX_LEN - 3, TRUE)

CcInit ==
  /\ theme = DefaultTheme
  /\ callIn \in CcInputs
  /\ callOut = CcLine("", -1, -1, FALSE)
  /\ callDone = FALSE

CcCall ==
  /\ ~callDone
  /\ callOut' = GetCcusage(callIn)
  /\ callDone' = TRUE
  /\ UNCHANGED <<theme, callIn, others>>

CcNext == CcCall

CcStart == RestIdle /\ CcInit

CcSpec == CcStart /\ [][CcNext]_vars

\* ---- run -------------------------------------------------------------------

TIMEOUT_SUBPROCESS == 5
TIMEOUT_GIT == 3

\* How long the command would take, in seconds; no value equals a timeout.
RunDurations == {0, 2, 4, 6}

\* The call: its timeout (the default, or the one get_git_info passes), how
\* the spawn goes, and for a spawned command its duration, exit status and
\* standard output.
RunInputs ==
  [timeout : {TIMEOUT_SUBPROCESS, TIMEOUT_GIT},
   spawn : {"ok", "notfound", "oserror"},
   dur : RunDurations, rc : {0, 1, 128}, stdout : {"", "text"}]

\* None, and a returned string.
RunNone == [none |-> TRUE, out |-> ""]
RunStr(out) == [none |-> FALSE, out |-> out]

\* A variant of run that returns the output whatever the exit status.
RunAnyStatus(in) ==
  IF in.spawn # "ok" THEN RunNone
  ELSE IF in.dur > in.timeout THEN RunNone
  ELSE RunStr(in.stdout)

\* run, lines 201-211: FileNotFoundError and OSError from the spawn and
\* TimeoutExpired are swallowed; r.stdout is returned when returncode == 0.
Run(in) ==
  IF in.spawn # "ok" THEN RunNone
  ELSE IF in.dur > in.timeout THEN RunNone
  ELSE IF in.rc = 0 THEN RunStr(in.stdout)
  ELSE RunNone

RunInit ==
  /\ theme = DefaultTheme
  /\ callIn \in RunInputs
  /\ callOut = RunNone
  /\ callDone = FALSE

RunCall ==
  /\ ~callDone
  /\ callOut' = Run(callIn)
  /\ callDone' = TRUE
  /\ UNCHANGED <<theme, callIn, others>>

RunNext == RunCall

RunStart == RestIdle /\ RunInit

RunSpec == RunStart /\ [][RunNext]_vars

\* ---- get_git_info ----------------------------------------------------------

GitMaxLines == 3

\* A header is a sequence of tokens: "##", single spaces, "...", words,
\* digit strings and the punctuation of the bracket.  A branch name is one
\* word; git allows a branch to be called No.
GitNames == {"main", "No", "feat/auth"}
GitCounts == {"", "1", "2"}

\* The bracket git prints after the upstream: nothing when level, else
\* [ahead A], [behind B] or [ahead A, behind B].
GitBracket(a, b) ==
  IF a = "" /\ b = "" THEN <<>>
  ELSE <<" ", "[">>
       \o (IF a # "" THEN <<"ahead", " ", a>> ELSE <<>>)
       \o (IF a # "" /\ b # "" THEN <<",", " ">> ELSE <<>>)
       \o (IF b # "" THEN <<"behind", " ", b>> ELSE <<>>)
       \o <<"]">>

\* The first line git status --porcelain=v1 --branch prints: on a branch
\* with or without an upstream, on a detached HEAD, and on a branch without
\* commits, with or without an upstream.
GitHeaders ==
  { <<"##", " ", n>> : n \in GitNames }
  \cup { <<"##", " ", n, "...", "origin/" \o n>> \o GitBracket(a, b) :
           n \in GitNames, a \in GitCounts, b \in GitCounts }
  \cup { <<"##", " ", "HEAD", " ", "(no", " ", "branch)">> }
  \cup { <<"##", " ", "No", " ", "commits", " ", "yet", " ", "on", " ", n>> :
           n \in {"main"} }
  \cup { <<"##", " ", "No", " ", "commits", " ", "yet", " ", "on", " ", n,
           "...", "origin/" \o n, " ", "[", "gone", "]">> : n \in {"main"} }

\* A file line is a sequence of characters: the two status characters (the
\* path is not looked at), or the empty line after the last newline.
GitFileLines ==
  { <<>>, <<"M", " ">>, <<" ", "M">>, <<"A", " ">>, <<"D", " ">>, <<" ", "D">>,
    <<"R", " ">>, <<"C", " ">>, <<"?", "?">>, <<"!", "!">>, <<"U", "U">> }

RECURSIVE GitLineLists(_)
GitLineLists(n) ==
  IF n = 0 THEN {<<>>}
  ELSE GitLineLists(n - 1)
       \cup {Append(l, c) : l \in {m \in GitLineLists(n - 1) : Len(m) = n - 1},
                            c \in GitFileLines}

\* What run returns to get_git_info: None, or the header and the lines
\* after it.
GitInputs ==
  [none : {FALSE}, header : GitHeaders \cup {<<>>}, lines : GitLineLists(GitMaxLines)]
  \cup {[none |-> TRUE, header |-> <<>>, lines |-> <<>>]}

\* s.split(sep)[0] on tokens: the tokens before the first sep.
RECURSIVE BeforeFirst(_, _)
BeforeFirst(toks, sep) ==
  IF toks = <<>> \/ Head(toks) = sep THEN <<>>
  ELSE <<Head(toks)>> \o BeforeFirst(Tail(toks), sep)

Contains(toks, t) == \E i \in 1..Len(toks) : toks[i] = t

\* Lines 313-323: the branch of the header.
HeaderBranch(header) ==
  IF Len(header) >= 2 /\ header[1] = "##" /\ header[2] = " "
    THEN LET branch_part == SubSeq(header, 3, Len(header))
             branch == IF Contains(branch_part, "...")
                         THEN BeforeFirst(branch_part, "...")
                         ELSE IF Contains(branch_part, " ")
                           THEN BeforeFirst(branch_part, " ")
                           ELSE branch_part
         IN IF branch \in {<<"HEAD">>, <<"No">>} THEN <<>> ELSE branch
    ELSE <<>>

\* Lines 326-333: re.search(word + r" (\d+)", header), "" without a match.
HeaderCount(header, word) ==
  LET hits == {i \in 1..(Len(header) - 2) :
                 /\ header[i] = word /\ header[i + 1] = " "
                 /\ header[i + 2] \in {"1", "2"}}
  IN IF hits = {} THEN ""
     ELSE header[(CHOOSE i \in hits : \A j \in hits : i <= j) + 2]

NoFlags == [dirty |-> FALSE, staged |-> FALSE, untracked |-> FALSE]

\* One turn of the loop of lines 337-348.
FlagLine(flags, line) ==
  IF Len(line) < 2 THEN flags
  ELSE [dirty |-> flags.dirty \/ line[2] \in {"M", "D"},
        staged |-> flags.staged \/ line[1] \in {"M", "A", "D", "R", "C"},
        untracked |-> flags.untracked \/ (line[1] = "?" /\ line[2] = "?")]

\* A variant of the loop in which each line overwrites the flags.
RECURSIVE FileFlagsLastLine(_, _)
FileFlagsLastLine(flags, lines) ==
  IF lines = <<>> THEN flags
  ELSE FileFlagsLastLine(FlagLine(NoFlags, Head(lines)), Tail(lines))

\* The loop of lines 337-348 from the flags so far over the lines left.
RECURSIVE FileFlags(_, _)
FileFlags(flags, lines) ==
  IF lines = <<>> THEN flags
  ELSE FileFlags(FlagLine(flags, Head(lines)), Tail(lines))

\* A variant of the marker list that shows the staged marker first.
IndicatorsStagedFirst(flags, ahead, behind) ==
  (IF flags.staged THEN <<"+">> ELSE <<>>)
  \o (IF flags.dirty THEN <<"*">> ELSE <<>>)
  \o (IF flags.untracked THEN <<"?">> ELSE <<>>)
  \o (IF ahead # "" THEN <<"^">> ELSE <<>>)
  \o (IF behind # "" THEN <<"v">> ELSE <<>>)

\* Lines 351-362: the markers in the order of the code; "^" stands for the
\* up arrow and "v" for the down arrow.
Indicators(flags, ahead, behind) ==
  (IF flags.dirty THEN <<"*">> ELSE <<>>)
  \o (IF flags.staged THEN <<"+">> ELSE <<>>)
  \o (IF flags.untracked THEN <<"?">> ELSE <<>>)
  \o (IF ahead # "" THEN <<"^">> ELSE <<>>)
  \o (IF behind # "" THEN <<"v">> ELSE <<>>)

\* get_git_info: the returned pair, with the locals ahead, behind and the
\* three flags as they stand at the return.
GetGitInfo(out) ==
  IF out.none
    THEN [branch |-> <<>>, indicators |-> <<>>, ahead |-> "", behind |-> "",
          flags |-> NoFlags]
    ELSE LET ahead == HeaderCount(out.header, "ahead")
             behind == HeaderCount(out.header, "behind")
             flags == FileFlags(NoFlags, out.lines)
         IN [branch |-> HeaderBranch(out.header),
             indicators |-> Indicators(flags, ahead, behind),
             ahead |-> ahead, behind |-> behind, flags |-> flags]

GitInit ==
  /\ theme = DefaultTheme
  /\ callIn \in GitInputs
  /\ callOut = GetGitInfo([none |-> TRUE, header |-> <<>>, lines |-> <<>>])
  /\ callDone = FALSE

GitCall ==
  /\ ~callDone
  /\ callOut' = GetGitInfo(callIn)
  /\ callDone' = TRUE
  /\ UNCHANGED <<theme, callIn, others>>

GitNext == GitCall

GitStart == RestIdle /\ GitInit

GitSpec == GitStart /\ [][GitNext]_vars

\* ---- the cache readers on documents of any shape ---------------------------

\* What pr-status.json may be: absent; present but read_text raises OSError;
\* bytes that are not UTF-8; text that is not JSON; a JSON list; a dict whose
\* "prs" is null; the empty dict; a dict with one review whose
\* "unread_count" is null; a document as the refresh job writes it, with one
\* review.
McPrShapes ==
  {"absent", "oserror", "nonutf8", "notjson", "list", "prs_null", "empty_dict",
   "unread_null", "ok"}

\* What the per-branch CI file may be: as above, and a dict whose
\* "conclusion" is a list.
McCiShapes ==
  {"absent", "oserror", "nonutf8", "notjson", "list", "conclusion_list",
   "empty_dict", "ok"}

\* prFresh, ciFresh: the file, when present, is younger than its TTL.  match:
\* the review of the document is for the branch asked about.  api: whether
\* the check-runs call returns runs.
McInputs ==
  [pr : McPrShapes, prFresh : BOOLEAN, ci : McCiShapes, ciFresh : BOOLEAN,
   match : BOOLEAN, api : {"none", "runs"}]

\* get_pr_status from line 460 on, gh being available: refresh tells whether
\* the refresh job was spawned, raised whether an exception left the
\* function, out what it returned.
McGetPrStatus(in) ==
  LET refresh == in.pr = "absent" \/ ~in.prFresh
  IN CASE in.pr \in {"absent", "oserror", "notjson", "empty_dict"} ->
            [refresh |-> refresh, raised |-> FALSE, out |-> ""]
       [] in.pr \in {"nonutf8", "list", "prs_null", "unread_null"} ->
            [refresh |-> refresh, raised |-> TRUE, out |-> ""]
       [] OTHER -> [refresh |-> refresh, raised |-> FALSE, out |-> "dots"]

\* _ci_from_pr_cache, lines 528-552: None (hit FALSE), a label, or an
\* exception.
McCiFromPrCache(in) ==
  CASE in.pr \in {"absent", "oserror", "notjson", "empty_dict"} ->
         [raised |-> FALSE, hit |-> FALSE, label |-> ""]
    [] in.pr \in {"nonutf8", "list", "prs_null"} ->
         [raised |-> TRUE, hit |-> FALSE, label |-> ""]
    [] OTHER -> [raised |-> FALSE, hit |-> in.match,
                 label |-> IF in.match THEN "CI" ELSE ""]

\* get_ci_status, lines 570-638, for a non-empty branch with gh available
\* and a remote: the tier that answered, the label, or an exception.
McGetCiStatus(in) ==
  LET from_pr == McCiFromPrCache(in)
      tier3 == [raised |-> FALSE, tier |-> 3,
                label |-> IF in.api = "runs" THEN "CI" ELSE ""]
  IN IF from_pr.raised THEN [raised |-> TRUE, tier |-> 1, label |-> ""]
     ELSE IF from_pr.hit THEN [raised |-> FALSE, tier |-> 1, label |-> from_pr.label]
     ELSE IF in.ci # "absent" /\ in.ciFresh
       THEN CASE in.ci \in {"oserror", "notjson"} -> tier3
              [] in.ci \in {"nonutf8", "list", "conclusion_list"} ->
                   [raised |-> TRUE, tier |-> 2, label |-> ""]
              [] in.ci = "empty_dict" -> [raised |-> FALSE, tier |-> 2, label |-> ""]
              [] OTHER -> [raised |-> FALSE, tier |-> 2, label |-> "CI"]
       ELSE tier3

McInit ==
  /\ theme = DefaultTheme
  /\ callIn \in McInputs
  /\ callOut = [pr |-> [refresh |-> FALSE, raised |-> FALSE, out |-> ""],
                ci |-> [raised |-> FALSE, tier |-> 1, label |-> ""]]
  /\ callDone = FALSE

\* One call of each reader on the same files.
McCall ==
  /\ ~callDone
  /\ callOut' = [pr |-> McGetPrStatus(callIn), ci |-> McGetCiStatus(callIn)]
  /\ callDone' = TRUE
  /\ UNCHANGED <<theme, callIn, others>>

McNext == McCall

McStart == RestIdle /\ McInit

McSpec == McStart /\ [][McNext]_vars

\* ---- the per-branch cache file name on pairs of keys -----------------------

\* Keys (owner, repository, branch) as sequences of characters.  GitHub
\* allows an underscore in a repository name and in a branch name.
NameKeys ==
  [owner : {<<"a">>, <<"d">>},
   repo : {<<"b">>, <<"b", "_", "c">>},
   branch : {<<"x">>, <<"c", "_", "x">>, BrMain}]

NameInputs == [k1 : NameKeys, k2 : NameKeys]

NameInit ==
  /\ theme = DefaultTheme
  /\ callIn \in NameInputs
  /\ callOut = [n1 |-> <<>>, n2 |-> <<>>]
  /\ callDone = FALSE

\* Line 588 for each of the two keys.
NameCall ==
  /\ ~callDone
  /\ callOut' = [n1 |-> CacheName(callIn.k1.owner, callIn.k1.repo, callIn.k1.branch),
                 n2 |-> CacheName(callIn.k2.owner, callIn.k2.repo, callIn.k2.branch)]
  /\ callDone' = TRUE
  /\ UNCHANGED <<theme, callIn, others>>

NameNext == NameCall

NameStart == RestIdle /\ NameInit

NameSpec == NameStart /\ [][NameNext]_vars

\* ---- render: the theme is loaded, then render is called twice --------------

RenderMaxCalls == 2

RenderInputs ==
  [file : {f \in ThemeFiles : ~ThemeRaises(f)},
   dir_name : {"dir"}, branch : {"", "main"}, git_status : {"", "dirty"},
   ci_label : {"", "CI"}, pr_status : {"", "dots"}, ccusage_line : {"usage"}]

RenderInit ==
  /\ theme = DefaultTheme
  /\ callIn \in RenderInputs
  /\ callOut = <<>>
  /\ callDone = FALSE

\* main, line 763: _load_theme_config(); callDone records that it has run.
RenderLoadTheme ==
  /\ ~callDone
  /\ theme' = LoadThemeConfig(theme, callIn.file)
  /\ callDone' = TRUE
  /\ UNCHANGED <<callIn, callOut, others>>

\* A variant of the call that puts the default tokens back once it has
\* rendered.
RenderCallResetsTheme ==
  /\ callDone
  /\ Len(callOut) < RenderMaxCalls
  /\ callOut' = Append(callOut,
                  Render(callIn.dir_name, callIn.branch, callIn.git_status,
                         callIn.ci_label, callIn.pr_status, callIn.ccusage_line))
  /\ theme' = DefaultTheme
  /\ UNCHANGED <<callIn, callDone, others>>

\* One call of render: it reads T and SEP2 and assigns nothing but its
\* local line2.
RenderCall ==
  /\ callDone
  /\ Len(callOut) < RenderMaxCalls
  /\ callOut' = Append(callOut,
                  Render(callIn.dir_name, callIn.branch, callIn.git_status,
                         callIn.ci_label, callIn.pr_status, callIn.ccusage_line))
  /\ UNCHANGED <<theme, callIn, callDone, others>>

RenderNext == RenderLoadTheme \/ RenderCall

RenderStart == RestIdle /\ RenderInit

RenderSpec == RenderStart /\ [][RenderNext]_vars

\* ---- check_gh_available alone, while the state of gh changes ---------------

\* The user installs gh, logs in or out, or `gh auth status` starts or stops
\* failing, between two probes.
GhEnvChange == CiEnvChange

GhNext ==
  \/ GhEnvChange
  \/ \E i \in Invs : StartCall(i)
  \/ \E i \in Invs : GhCheckCached(i)
  \/ \E i \in Invs : GhProbe(i)
  \/ \E i \in Invs : GhWriteOpen(i)
  \/ \E i \in Invs : GhWriteData(i)

GhStart == SysIdle /\ CfIdle /\ PrIdle /\ AggIdle /\ CiIdle /\ MainIdle /\ FnIdle

GhSpec == GhStart /\ [][GhNext]_vars

\* ---- the refresh script from the review query to the rename ----------------

\* How the two `gh api` processes of the script end.  gql: exit 0 with a
\* list of reviews, exit 0 with output that is not JSON, a non-zero exit, or
\* TimeoutExpired.  notif: exit 0 with some unread notifications, a non-zero
\* exit, or TimeoutExpired.
ScriptGqlEnds ==
  { [end |-> "exit", rc |-> 0, json |-> TRUE, nodes |-> <<>>],
    [end |-> "exit", rc |-> 0, json |-> TRUE, nodes |-> <<PrNode(BrPr, "FAILURE")>>],
    [end |-> "exit", rc |-> 0, json |-> FALSE, nodes |-> <<>>],
    [end |-> "exit", rc |-> 1, json |-> FALSE, nodes |-> <<>>],
    [end |-> "timeout", rc |-> -1, json |-> FALSE, nodes |-> <<>>] }
ScriptNotifEnds ==
  { [end |-> "exit", rc |-> 0, unread |-> 0],
    [end |-> "exit", rc |-> 0, unread |-> 2],
    [end |-> "exit", rc |-> 1, unread |-> 0],
    [end |-> "timeout", rc |-> -1, unread |-> 0] }

\* pr-status.json before the job, and the ends of its two processes.
ScriptInputs ==
  [prev : {[exists |-> FALSE, doc |-> NoDoc, mtime |-> 0]}
          \cup {[exists |-> TRUE, doc |-> d, mtime |-> 0] : d \in Docs},
   gql : ScriptGqlEnds, notif : ScriptNotifEnds]

\* Lines 416-436, the statements that follow the review query, at time t:
\* prs is the parsed output or {} after a non-zero exit (read back as no
\* reviews), unread counts the notifications or is 0 after a non-zero exit,
\* and the result is dumped and renamed over pr-status.json.  An exception
\* (a timeout, output that is not JSON) leaves the file as it was.
ScriptWrite(prev, gql, notif, t) ==
  IF gql.end = "timeout" \/ (gql.rc = 0 /\ ~gql.json) \/ notif.end = "timeout"
    THEN prev
    ELSE [exists |-> TRUE,
          doc |-> [nodes |-> IF gql.rc = 0 THEN gql.nodes ELSE <<>>,
                   unread_count |-> IF notif.rc = 0 THEN notif.unread ELSE 0,
                   updated_at |-> t],
          mtime |-> t]

ScriptInit ==
  /\ theme = DefaultTheme
  /\ callIn \in ScriptInputs
  /\ callOut = [exists |-> FALSE, doc |-> NoDoc, mtime |-> 0]
  /\ callDone = FALSE

ScriptCall ==
  /\ ~callDone
  /\ callOut' = ScriptWrite(callIn.prev, callIn.gql, callIn.notif, now)
  /\ callDone' = TRUE
  /\ UNCHANGED <<theme, callIn, others>>

ScriptStart == RestIdle /\ ScriptInit

ScriptSpec == ScriptStart /\ [][ScriptCall]_vars

\* ---- tier 1 of get_ci_status on reviews of several repositories ------------

T1MaxNodes == 2

\* The review query asks for the author's open reviews in every repository;
\* each node carries repository.nameWithOwner besides its head branch and
\* rollup.
T1Repos == {[owner |-> <<"a">>, repo |-> <<"c">>], [owner |-> <<"z">>, repo |-> <<"c">>]}
T1Nodes == [head : {BrMain, BrPr}, roll : Rolls, repo : T1Repos]

RECURSIVE T1NodeLists(_)
T1NodeLists(n) ==
  IF n = 0 THEN {<<>>}
  ELSE T1NodeLists(n - 1)
       \cup {Append(l, x) : l \in {m \in T1NodeLists(n - 1) : Len(m) = n - 1},
                            x \in T1Nodes}

\* get_ci_status(cwd, branch) with the origin remote of cwd naming rem and
\* pr-status.json holding nodes.
T1Inputs ==
  [rem : {[ok |-> TRUE, owner |-> <<"a">>, repo |-> <<"c">>]},
   branch : {BrMain, BrPr},
   nodes : T1NodeLists(T1MaxNodes)]

T1Init ==
  /\ theme = DefaultTheme
  /\ callIn \in T1Inputs
  /\ callOut = [found |-> FALSE, label |-> ""]
  /\ callDone = FALSE

\* Lines 570-572: from_pr = _ci_from_pr_cache(branch), before the remote of
\* cwd is read.
T1Call ==
  /\ ~callDone
  /\ callOut' = CiFromPrCache([exists |-> TRUE,
                               doc |-> [nodes |-> callIn.nodes, unread_count |-> 0,
                                        updated_at |-> 0],
                               mtime |-> 0],
                              callIn.branch)
  /\ callDone' = TRUE
  /\ UNCHANGED <<theme, callIn, others>>

T1Start == RestIdle /\ T1Init

T1Spec == T1Start /\ [][T1Call]_vars

\* ---- _load_theme_config on theme files -------------------------------------

\* The two entries theme files are built from here.
ThemeEntries ==
  { [attrs |-> <<"bold", "bogus", "none", "dim">>, fg |-> 0, bg |-> -1],
    [attrs |-> <<>>, fg |-> 1, bg |-> 7] }

\* Theme files: absent, not JSON, or a dict giving one entry to each of some
\* keys: tokens, R, a name T does not have, and names T has by being a class.
ThemeKeys == {"branch_name", "sep", "R", "bogus", "mro", "__class__"}
ThemeInputs ==
  { [kind |-> "absent", config |-> NoConfig],
    [kind |-> "garbage", config |-> NoConfig] }
  \cup { [kind |-> "config", config |-> [k \in ks |-> e]] :
           ks \in SUBSET ThemeKeys, e \in ThemeEntries }

ThemeInit ==
  /\ theme = DefaultTheme
  /\ callIn \in ThemeInputs
  /\ callOut = [raised |-> FALSE]
  /\ callDone = FALSE

\* One call of _load_theme_config; after an exception the tokens are left
\* as they were (the process ends).
ThemeCall ==
  /\ ~callDone
  /\ theme' = IF ThemeRaises(callIn) THEN theme ELSE LoadThemeConfig(theme, callIn)
  /\ callOut' = [raised |-> ThemeRaises(callIn)]
  /\ callDone' = TRUE
  /\ UNCHANGED <<callIn, others>>

ThemeStart == RestIdle /\ ThemeInit

ThemeSpec == ThemeStart /\ [][ThemeCall]_vars

\* ---- specifications --------------------------------------------------------

InvStep(i) ==
  \/ StartCall(i)
  \/ GhCheckCached(i)
  \/ GhProbe(i)
  \/ GhWriteOpen(i)
  \/ GhWriteData(i)
  \/ PrFreshCheck(i)
  \/ PrRead(i)

JobStep(j) ==
  \/ JobOpen(j)
  \/ JobFlock(j)
  \/ JobBody(j)
  \/ JobFinally(j)

Next ==
  \/ Tick
  \/ \E i \in Invs : StartCall(i)
  \/ \E i \in Invs : GhCheckCached(i)
  \/ \E i \in Invs : GhProbe(i)
  \/ \E i \in Invs : GhWriteOpen(i)
  \/ \E i \in Invs : GhWriteData(i)
  \/ \E i \in Invs : PrFreshCheck(i)
  \/ \E i \in Invs : PrRead(i)
  \/ \E j \in Jobs : JobOpen(j)
  \/ \E j \in Jobs : JobFlock(j)
  \/ \E j \in Jobs : JobBody(j)
  \/ \E j \in Jobs : JobFinally(j)
  \/ \E j \in Jobs : JobKilled(j)

Spec == Init /\ [][Next]_vars

\* Every running process is scheduled: an invocation that can take a step
\* takes one (and a finished one is followed by another), and so does a job
\* that nobody kills.  The clock and the kill are under no obligation.
Fairness ==
  /\ \A i \in Invs : WF_vars(InvStep(i))
  /\ \A j \in Jobs : WF_vars(JobStep(j))

FairSpec == Init /\ [][Next]_vars /\ Fairness


\* ---- claims ----------------------------------------------------------------

Running == {"try", "finally", "finally_ok"}

\* C1: at any time at most one refresh job is between acquiring the
\* exclusive lock on refresh.lock and releasing it.
C1_AtMostOneLockHolder ==
  /\ Cardinality(locked) <= 1
  /\ Cardinality({j \in Jobs : jpc[j] \in Running}) <= 1
  /\ \A j \in Jobs : jpc[j] \in Running => j \in locked

\* One job holds the lock while another one is at its lock attempt.
C1_Witness ==
  \E j, k \in Jobs : j # k /\ j \in locked /\ jpc[j] = "try" /\ jpc[k] = "flock"

\* C2: a job whose lock attempt finds the lock held by another job ends in
\* that very step, with exit status 0, without the lock, without a remote
\* query and without touching any cache file; the attempt is never blocked,
\* and nothing the job did before the attempt touched a cache file either.
C2_ContendedAttemptEndsAtOnce ==
  [][\A j \in Jobs :
       /\ (jpc[j] = "flock" /\ locked \ {j} # {}) => ENABLED JobFlock(j)
       /\ (jpc[j] \in {"open", "flock"} /\ jpc'[j] # jpc[j])
            => (queryLog' = queryLog /\ prFile' = prFile /\ ghFile' = ghFile)
       /\ (jpc[j] = "flock" /\ locked \ {j} # {} /\ jpc'[j] \notin {"flock", "killed"})
            => /\ jpc'[j] = "exit0"
               /\ locked' = locked
               /\ queryLog' = queryLog
               /\ prFile' = prFile
               /\ ghFile' = ghFile
               /\ replaced' = replaced]_vars

\* A job has ended on a failed attempt while another job holds the lock.
C2_Witness ==
  \E j, k \in Jobs : j # k /\ jpc[j] = "exit0" /\ k \in locked /\ j \notin replaced

\* C3: a job that acquired the lock releases it however it ends, so a held
\* lock always becomes free again and no ended job keeps it.
C3_LockAlwaysReleased ==
  /\ [](\A j \in Jobs : jpc[j] \in Ended => j \notin locked)
  /\ (locked # {}) ~> (locked = {})

\* A job that held the lock has left through its finally block with an
\* exception pending, and the lock is free.
C3_Witness ==
  \E j \in Jobs : jpc[j] = "exit1" /\ locked = {}

\* C4: with the tool available and invocations going on (and no refresh job
\* killed from outside), a stale review cache is eventually replaced by a
\* refresh job and is fresh again.
C4_StaleCacheEventuallyRefreshed ==
  [](\A j \in Jobs : jpc[j] # "killed")
    => ((ghEnv = "ok" /\ ~(prFile.exists /\ now - prFile.mtime < PR_CACHE_TTL))
          ~> (prFile.exists /\ now - prFile.mtime < PR_CACHE_TTL))

\* C5: the freshness step of get_pr_status starts exactly one job when the
\* review cache is not fresh and none when it is; the read step returns the
\* rendering of the document on disk at that moment (empty if there is
\* none) and depends on no job.
C5_OneJobIfStaleNoneIfFresh ==
  [][\A i \in Invs :
       /\ (pc[i] = "pr_fresh" /\ pc'[i] # "pr_fresh")
            => /\ pc'[i] = "pr_read"
               /\ Cardinality({j \in Jobs : jpc[j] \in Ended /\ jpc'[j] = "open"})
                    = IF prFile.exists /\ now - prFile.mtime < PR_CACHE_TTL
                        THEN 0 ELSE 1
               /\ \A j \in Jobs : jpc'[j] # jpc[j] => jpc'[j] = "open"
       /\ pc[i] = "pr_read" => ENABLED PrRead(i)
       /\ (pc[i] = "pr_read" /\ pc'[i] # "pr_read")
            => /\ pc'[i] = "done"
               /\ jpc' = jpc
               /\ ret'[i] = IF prFile.exists THEN PrRender(prFile.doc)
                            ELSE EmptyOut]_vars

\* An invocation has returned from get_pr_status with the tool available
\* while a job started for a stale cache has not even opened the lock file.
C5_Witness ==
  \E i \in Invs, j \in Jobs :
    pc[i] = "done" /\ gh[i] = "ok" /\ jpc[j] = "open" /\ ~lockFile

\* C6: every remote review or notification query is issued by a refresh job
\* that holds the lock at that moment, never by an invocation.
C6_QueriesOnlyUnderLock ==
  \A q \in queryLog : q.by = "job" /\ q.held

\* An invocation has gone through get_pr_status with no document on disk
\* while a refresh job is in flight, holding the lock.
C6_Witness ==
  \E i \in Invs :
    pc[i] = "done" /\ gh[i] = "ok" /\ ~prFile.exists /\ locked # {}

C8_SharedWritesAtomicOrLocked ==
  /\ Cardinality({i \in Invs : pc[i] = "gh_write_data"}) <= 1
  /\ ~(\E i \in Invs : pc[i] = "gh_check" /\ ghFile.exists /\ ghFile.text = "")

\* C9: the availability probe runs at most once per GH_CHECK_TTL window,
\* over all invocations.
C9_OneProbePerWindow ==
  [][\A i \in Invs :
       (pc[i] = "gh_probe" /\ pc'[i] = "gh_write_open")
         => (lastProbe = -1 \/ now - lastProbe >= GH_CHECK_TTL)]_vars

\* C10: is_cache_fresh is false when the age exceeds the TTL, true when the
\* age is below the TTL minus one second, false when the file cannot be
\* stat'ed.
C10_FreshnessAgainstTtl ==
  cfResult # "none" =>
    /\ ~cfPath.exists => cfResult = "stale"
    /\ (cfPath.exists /\ cfNow - cfPath.mtime > cfTtl) => cfResult = "stale"
    /\ (cfPath.exists /\ cfNow - cfPath.mtime < cfTtl - 1) => cfResult = "fresh"

\* The call has answered "stale" for a file whose age is the TTL plus one.
C10_Witness ==
  cfResult = "stale" /\ cfPath.exists /\ cfNow - cfPath.mtime = cfTtl + 1

\* C11: with a fresh marker holding no-gh or no-auth, get_pr_status goes in
\* one step from the marker to the fixed diagnostic: no probe, no job
\* started, no remote query, no file written, and a result that does not
\* depend on the review cache.
C11_CachedUnavailableShortCircuits ==
  [][\A i \in Invs :
       (/\ pc[i] = "gh_check"
        /\ pc'[i] # "gh_check"
        /\ ghFile.exists
        /\ now - ghFile.mtime < GH_CHECK_TTL
        /\ ghFile.text \in {"no-gh", "no-auth"})
         => /\ pc'[i] = "done"
            /\ ret'[i] = DiagOut(IF ghFile.text = "no-gh" THEN "gh not installed"
                                  ELSE "gh auth login")
            /\ lastProbe' = lastProbe
            /\ jpc' = jpc
            /\ queryLog' = queryLog
            /\ ghFile' = ghFile
            /\ prFile' = prFile]_vars

\* One invocation has probed, written no-auth and returned; a second second
\* later the other one is at its availability check with that marker fresh.
C11_Witness ==
  \E i, k \in Invs :
    /\ i # k
    /\ pc[i] = "gh_check"
    /\ pc[k] = "done"
    /\ ret[k] = DiagOut("gh auth login")
    /\ ghFile.exists /\ ghFile.text = "no-auth"
    /\ now - ghFile.mtime = 1

\* C14: the aggregated conclusion of every non-empty check-runs list is
\* failure if any conclusion is failure, timed_out, cancelled or
\* action_required; otherwise success if every run is completed and
\* successful; otherwise pending if any run is queued or in progress;
\* otherwise unknown.
C14_Classification ==
  aggResult # "none" =>
    LET idx == 1..Len(aggRuns) IN
    aggResult =
      IF \E k \in idx : aggRuns[k].conclusion \in
                           {"failure", "timed_out", "cancelled", "action_required"}
        THEN "failure"
      ELSE IF \A k \in idx : /\ aggRuns[k].status = "completed"
                              /\ aggRuns[k].conclusion = "success"
        THEN "success"
      ELSE IF \E k \in idx : aggRuns[k].status \in {"queued", "in_progress"}
        THEN "pending"
      ELSE "unknown"

\* C15: the returned string holds one dot per review, every review's dot in
\* the group of its rollup state (a missing rollup or any other state:
\* unknown), and the groups follow each other in the order failing, pending,
\* passing, unknown whatever the order of the reviews in the cache.
C15_OneDotPerReviewInBucketOrder ==
  prDone =>
    LET nodes == prDoc.nodes
        parts == prOut.parts
        BucketOf(node) ==
          IF node.roll \in {"FAILURE", "ERROR"} THEN "pr_fail"
          ELSE IF node.roll \in {"PENDING", "EXPECTED"} THEN "pr_wait"
          ELSE IF node.roll = "SUCCESS" THEN "pr_ok"
          ELSE "pr_none"
        BucketRank(color) ==
          CASE color = "pr_fail" -> 1
            [] color = "pr_wait" -> 2
            [] color = "pr_ok" -> 3
            [] color = "pr_none" -> 4
            [] OTHER -> 0
    IN /\ \A a, b \in 1..Len(parts) :
            a < b => /\ BucketRank(parts[a].color) > 0
                     /\ BucketRank(parts[a].color) < BucketRank(parts[b].color)
       /\ \A k \in 1..Len(parts) : BucketRank(parts[k].color) > 0 /\ parts[k].n > 0
       /\ \A c \in {"pr_fail", "pr_wait", "pr_ok", "pr_none"} :
            LET want == Cardinality({k \in 1..Len(nodes) : BucketOf(nodes[k]) = c})
            IN IF want = 0 THEN \A k \in 1..Len(parts) : parts[k].color # c
               ELSE \E k \in 1..Len(parts) : parts[k].color = c /\ parts[k].n = want

\* Reviews cached in the order passing, no rollup, failing, passing come out
\* as one failing dot, two passing dots, one unknown dot.
C15_Witness ==
  /\ prDone
  /\ prDoc.nodes = <<PrNode(BrPr, "SUCCESS"), PrNode(BrPr, "norollup"),
                      PrNode(BrPr, "ERROR")>>
  /\ prOut.parts = <<[color |-> "pr_fail", text |-> "dot", n |-> 1],
                      [color |-> "pr_ok", text |-> "dot", n |-> 1],
                      [color |-> "pr_none", text |-> "dot", n |-> 1]>>

\* C16: whenever the cached unread_count is present and positive the
\* returned string ends with the notification suffix showing that count, for
\* any number of open reviews including none; a zero or absent count adds
\* no suffix.
C16_UnreadSuffix ==
  prDone =>
    prOut.unread = IF "unread_count" \in DOMAIN prDoc /\ prDoc.unread_count > 0
                     THEN prDoc.unread_count ELSE 0

\* C12 as stated: for a non-empty branch, (1) a review in the review cache
\* with that head branch decides, with no read of the per-branch cache and
\* no remote call; (2) otherwise a fresh readable per-branch entry is used
\* with no remote call; (3) a remote call needs both caches to miss and gh
\* to be available, and there is at most one per call.
C12_ThreeTiersAsStated ==
  (ciLast.n > 0 /\ ciLast.branch # <<>>) =>
    LET held == /\ prFile.exists
                /\ \E k \in 1..Len(prFile.doc.nodes) :
                      prFile.doc.nodes[k].head = ciLast.branch
    IN /\ held => ciLast.prHit /\ ~ciLast.ciRead /\ ciLast.remote = 0
       /\ (~held /\ ciLast.entry = "fresh")
            => /\ ciLast.ciRead /\ ciLast.remote = 0
               /\ ciLast.label = FormatCiLabel(
                     ciFiles[CacheName(ciLast.rem.owner, ciLast.rem.repo,
                                       ciLast.branch)].text)
       /\ ciLast.remote <= 1
       /\ ciLast.remote = 1
            => ~held /\ ciLast.entry # "fresh" /\ ciLast.ghv = "ok"

\* C12, amended: as above, but in (2) the fresh readable per-branch entry
\* is used only if gh is available (and the origin remote names the key);
\* with gh missing or logged out the call returns no label.
C12_ThreeTiers ==
  (ciLast.n > 0 /\ ciLast.branch # <<>>) =>
    LET held == /\ prFile.exists
                /\ \E k \in 1..Len(prFile.doc.nodes) :
                      prFile.doc.nodes[k].head = ciLast.branch
    IN /\ held => ciLast.prHit /\ ~ciLast.ciRead /\ ciLast.remote = 0
       /\ (~held /\ ciLast.entry = "fresh" /\ ciLast.ghv = "ok")
            => /\ ciLast.ciRead /\ ciLast.remote = 0
               /\ ciLast.label = FormatCiLabel(
                     ciFiles[CacheName(ciLast.rem.owner, ciLast.rem.repo,
                                       ciLast.branch)].text)
       /\ (~held /\ ciLast.ghv # "ok")
            => ~ciLast.ciRead /\ ciLast.remote = 0 /\ ciLast.label = ""
       /\ ciLast.remote <= 1
       /\ ciLast.remote = 1
            => ~held /\ ciLast.entry # "fresh" /\ ciLast.ghv = "ok"

\* The third call finds no review for the branch, gh logged out and a fresh
\* successful entry written by the second call, and returns no label.
C12_Witness ==
  /\ ciLast.n = 3
  /\ ciLast.branch = BrMain
  /\ ciLast.entry = "fresh"
  /\ ciLast.ghv = "no-auth"
  /\ ciLast.label = ""
  /\ ciFiles[CacheName(<<"a">>, <<"c">>, BrMain)].text = "success"

\* C13: once a remote call has returned a parseable result for a key, a
\* later call for that key within CI_CACHE_TTL makes no remote call, for
\* every branch name, also those with a slash.
C13_NoRefetchWithinTtl ==
  (/\ ciLast.n > 0
   /\ ciLast.prevFetch >= 0
   /\ ciLast.at - ciLast.prevFetch < CI_CACHE_TTL)
    => ciLast.remote = 0

\* C17: whichever of the three units raise, the printed status is the
\* rendering of the empty fallback for each unit that raised and of the
\* returned value, unchanged, for each that did not.
C17_FailedUnitFallsBack ==
  mExit = 0 =>
    LET git == IF mUnit["git"] = "raised" THEN [branch |-> "", status |-> ""]
               ELSE mVal["git"]
        pr == IF mUnit["pr"] = "raised" THEN "" ELSE mVal["pr"].text
        cc == IF mUnit["ccusage"] = "raised" THEN "" ELSE mVal["ccusage"].text
    IN mOut = <<Render("dir", git.branch, git.status, mCi.label, pr, cc)>>

\* The review-dot unit raised, the other two returned, and their values are
\* in the printed status.
C17_Witness ==
  /\ mExit = 0
  /\ mUnit["pr"] = "raised"
  /\ mUnit["git"] = "returned" /\ mVal["git"] = [branch |-> "main", status |-> "dirty"]
  /\ mUnit["ccusage"] = "returned" /\ mVal["ccusage"].text = "usage"
  /\ mOut[1].line1 = "usage"
  /\ \E k \in 1..Len(mOut[1].line2) : mOut[1].line2[k] = Txt("main")
  /\ \E k \in 1..Len(mOut[1].line2) : mOut[1].line2[k] = Txt("dirty")
  /\ \A k \in 1..Len(mOut[1].line2) : mOut[1].line2[k] # Txt("dots")

\* C18: get_ci_status is called only after get_git_info has returned, and
\* only with a non-empty branch; the status is printed once, after the three
\* units and the CI resolution have finished; the printed status depends on
\* what the units returned, not on the order in which they finished.
C18_CiAfterGitRenderOnce ==
  /\ mCi.at # "notrun" => mUnit["git"] = "returned" /\ mVal["git"].branch # ""
  /\ Len(mOut) <= 1
  /\ Len(mOut) = 1 =>
       /\ \A u \in Units : mUnit[u] \in {"returned", "raised"}
       /\ mCi.at # "running"
       /\ (mUnit["git"] = "returned" /\ mVal["git"].branch # "") => mCi.at = "done"
       /\ mOut[1] = Render("dir", mVal["git"].branch, mVal["git"].status, mCi.label,
                           mVal["pr"].text, mVal["ccusage"].text)
  /\ mExit = 0 => Len(mOut) = 1

\* The units finished in the order usage report, review dots, repository
\* state; the CI status was resolved and the status printed.
C18_Witness ==
  /\ mExit = 0
  /\ mCollected = <<"ccusage", "pr", "git">>
  /\ mCi = [at |-> "done", label |-> "ci_ok"]
  /\ Len(mOut) = 1

\* C19: an invocation with a valid input prints its status and exits, given
\* that the units and get_ci_status end; the detached refresh job may run
\* for ever.
C19_ValidInputPrintsAndExits ==
  (mpc = "start" /\ Validates(mIn)) ~> (mExit = 0 /\ Len(mOut) = 1)

\* The invocation has exited while the refresh job it started still runs.
C19_Witness ==
  /\ mExit = 0
  /\ Len(mOut) = 1
  /\ mJob = "running"

\* C20: a JSON input without a non-empty workspace.current_dir ends the
\* process with a non-zero status, nothing on stdout, no unit submitted, no
\* CI resolution and no refresh job.
C20_MissingDirExitsBeforeUnits ==
  (/\ mIn.arrival = "in_time"
   /\ mIn.raw = "json"
   /\ ~(mIn.top = "dict" /\ mIn.ws = "dict" /\ mIn.cur = "dir"))
    => /\ mpc \in {"load", "start", "exited"}
       /\ mpc = "exited" => mExit > 0
       /\ mOut = <<>>
       /\ \A u \in Units : mUnit[u] = "unsubmitted"
       /\ mCi.at = "notrun"
       /\ mJob = "none"

\* The workspace holds an empty current_dir and the process has exited 1.
C20_Witness ==
  /\ mIn.arrival = "in_time" /\ mIn.raw = "json" /\ mIn.top = "dict"
  /\ mIn.ws = "dict" /\ mIn.cur = "empty"
  /\ mpc = "exited"
  /\ mExit = 1
  /\ mOut = <<>>

\* C21: an invocation whose input was read in time, is JSON and holds a
\* non-empty current directory prints its status and exits 0, whatever the
\* sources do; it exits non-zero only when the input times out, cannot be
\* read, is empty, is not JSON or lacks the directory.
C21_ExitZeroUnlessInputBad ==
  mpc = "exited" =>
    LET inputGood == /\ mIn.arrival = "in_time" /\ mIn.raw = "json"
                     /\ mIn.top = "dict" /\ mIn.ws = "dict" /\ mIn.cur = "dir"
    IN /\ inputGood => mExit = 0 /\ Len(mOut) = 1
       /\ mExit # 0 => ~inputGood

\* C27: render returns the usage line, then a second line that starts with
\* the directory label, holds the branch glyph and name exactly when the
\* branch is non-empty, the indicators only with a branch, the CI label
\* exactly when it is non-empty, and the separator and the dots exactly when
\* the dots are non-empty, always in that order.
C27_RenderStructure ==
  \A n \in 1..Len(callOut) :
    LET l == callOut[n].line2
        At(seg) == {i \in 1..Len(l) : l[i] = seg}
        Before(a, b) == \A i \in At(a), j \in At(b) : i < j
        glyph == Txt("BRANCH_LABEL")
        name == Txt(callIn.branch)
        ind == Txt(callIn.git_status)
        ci == Txt(callIn.ci_label)
        bar == Txt("|")
        dots == Txt(callIn.pr_status)
    IN /\ callOut[n].line1 = callIn.ccusage_line
       /\ l[1] = Txt(callIn.dir_name)
       /\ Cardinality(At(glyph)) = (IF callIn.branch # "" THEN 1 ELSE 0)
       /\ callIn.branch # "" => Cardinality(At(name)) = 1
       /\ callIn.git_status # "" =>
            Cardinality(At(ind)) = (IF callIn.branch # "" THEN 1 ELSE 0)
       /\ callIn.ci_label # "" => Cardinality(At(ci)) = 1
       /\ callIn.ci_label = "" => At(Txt("CI")) = {}
       /\ Cardinality(At(bar)) = (IF callIn.pr_status # "" THEN 1 ELSE 0)
       /\ callIn.pr_status # "" => Cardinality(At(dots)) = 1
       /\ callIn.pr_status = "" => At(Txt("dots")) = {}
       /\ Before(glyph, name) /\ Before(name, ind) /\ Before(name, ci)
       /\ Before(ind, ci) /\ Before(ci, bar) /\ Before(ind, bar)
       /\ Before(name, bar) /\ Before(bar, dots)

C27_Witness ==
  /\ Len(callOut) >= 1
  /\ callIn \in RenderInputs
  /\ callIn.branch = "main" /\ callIn.git_status = "dirty"
  /\ callIn.ci_label = "CI" /\ callIn.pr_status = "dots"
  /\ Len(callOut[1].line2) = 17

C22_CcusageDiagnostics ==
  callDone =>
    LET missing == callIn.which = "missing" \/ callIn.end.kind = "notfound"
        timeout == callIn.which = "found" /\ callIn.end.kind = "timeout"
        nonzero == callIn.which = "found" /\ callIn.end.kind = "exit"
                   /\ callIn.end.rc # 0
    IN /\ (missing \/ timeout \/ nonzero) => callOut.text # ""
       /\ missing => callOut.text = "bun not found"
       /\ timeout => /\ callOut.text = "ccusage timeout"
                     /\ callOut.num = 30
       /\ nonzero => /\ callOut.text = "ccusage code"
                     /\ callOut.num = callIn.end.rc
       /\ callOut.text \in {"bun not found", "ccusage timeout", "ccusage code"}
            => (missing \/ timeout \/ (callIn.end.kind = "exit"
                                        /\ callOut.text = "ccusage code"))

C22_Witness ==
  /\ callDone
  /\ callIn \in CcInputs
  /\ callIn.which = "found" /\ callIn.end.kind = "timeout"
  /\ callOut.text = "ccusage timeout"

\* C24: run returns the captured standard output exactly when the command
\* was spawned, ended within the timeout and exited with status 0; in every
\* other case (timeout, non-zero exit, missing executable, spawn failure) it
\* returns None.
C24_RunOutputIffExitZero ==
  callDone =>
    LET exitedZero == /\ callIn.spawn = "ok"
                      /\ callIn.dur < callIn.timeout
                      /\ callIn.rc = 0
    IN /\ exitedZero => callOut = [none |-> FALSE, out |-> callIn.stdout]
       /\ ~exitedZero => callOut = [none |-> TRUE, out |-> ""]

C24_Witness ==
  /\ callDone
  /\ callIn \in RunInputs
  /\ callIn.spawn = "ok" /\ callIn.dur < callIn.timeout
  /\ callIn.rc = 128 /\ callIn.stdout = "text"
  /\ callOut.none

\* C25: for a header '## b...upstream [ahead A, behind B]' get_git_info
\* yields branch b with ahead A and behind B; for a header without the
\* bracket, or without an upstream, it yields the branch with neither ahead
\* nor behind; for a detached HEAD it yields an empty branch.
C25_HeaderParsed ==
  (callDone /\ ~callIn.none) =>
    /\ \A n \in GitNames, a \in GitCounts, b \in GitCounts :
         callIn.header = <<"##", " ", n, "...", "origin/" \o n>> \o GitBracket(a, b)
           => /\ callOut.branch = <<n>>
              /\ callOut.ahead = a
              /\ callOut.behind = b
    /\ \A n \in GitNames :
         callIn.header = <<"##", " ", n>>
           => /\ callOut.branch = <<n>>
              /\ callOut.ahead = ""
              /\ callOut.behind = ""
    /\ callIn.header = <<"##", " ", "HEAD", " ", "(no", " ", "branch)">>
         => callOut.branch = <<>>

\* C26: staged is set when some line has M, A, R or C in the first column,
\* dirty when some line has M or D in the second, untracked when some line
\* is '??'; no flag is set without such a line (a staged D counts for
\* staged), none with no file lines, and reversing the lines changes no flag.
C26_FileFlags ==
  (callDone /\ ~callIn.none) =>
    LET ls == callIn.lines
        Some(P(_)) == \E i \in 1..Len(ls) : Len(ls[i]) >= 2 /\ P(ls[i])
        StagedLine(l) == l[1] \in {"M", "A", "R", "C"}
        StagedOrDeleted(l) == l[1] \in {"M", "A", "R", "C", "D"}
        DirtyLine(l) == l[2] \in {"M", "D"}
        UntrackedLine(l) == l = <<"?", "?">>
        reversed == [i \in 1..Len(ls) |-> ls[Len(ls) + 1 - i]]
        f == callOut.flags
    IN /\ Some(StagedLine) => f.staged
       /\ f.staged => Some(StagedOrDeleted)
       /\ f.dirty <=> Some(DirtyLine)
       /\ f.untracked <=> Some(UntrackedLine)
       /\ ls = <<>> => f = [dirty |-> FALSE, staged |-> FALSE, untracked |-> FALSE]
       /\ GetGitInfo([callIn EXCEPT !.lines = reversed]).flags = f
       /\ ("+" \in {callOut.indicators[i] : i \in 1..Len(callOut.indicators)})
            <=> f.staged

C26_Witness ==
  /\ callDone
  /\ callIn \in GitInputs
  /\ callIn.lines = << <<"M", " ">>, <<" ", "M">>, <<"?", "?">> >>
  /\ callOut.flags = [dirty |-> TRUE, staged |-> TRUE, untracked |-> TRUE]

\* C23: a review-status or per-branch CI file that is unreadable, not JSON,
\* or JSON of an unexpected shape is handled like a missing one:
\* get_pr_status returns the empty string, having spawned a refresh when the
\* file is stale, get_ci_status answers as it would with the file absent,
\* and neither raises.
C23_MalformedLikeMiss ==
  callDone =>
    LET badPr == callIn.pr \in {"oserror", "nonutf8", "notjson", "list",
                                "prs_null", "unread_null"}
        badCi == callIn.ci \in {"oserror", "nonutf8", "notjson", "list",
                                "conclusion_list"}
    IN /\ badPr => /\ ~callOut.pr.raised
                   /\ callOut.pr.out = ""
                   /\ ~callIn.prFresh => callOut.pr.refresh
       /\ (badPr /\ callIn.ci \in {"absent", "ok"}) =>
            callOut.ci = McGetCiStatus([callIn EXCEPT !.pr = "absent"])
       /\ (badCi /\ callIn.pr \in {"absent", "ok"}) =>
            callOut.ci = McGetCiStatus([callIn EXCEPT !.ci = "absent"])

\* C29: a document as the refresh job writes it (reviews and an
\* unread_count), read back by get_pr_status, yields the same unread_count
\* and, for each bucket, as many dots as there are reviews whose written
\* rollup state falls in that bucket.
C29_RoundTrip ==
  (prDone /\ "unread_count" \in DOMAIN prDoc) =>
    /\ prOut.unread = prDoc.unread_count
    /\ \A c \in {"pr_fail", "pr_wait", "pr_ok", "pr_none"} :
         LET Written(node) ==
               CASE node.roll \in {"FAILURE", "ERROR"} -> "pr_fail"
                 [] node.roll \in {"PENDING", "EXPECTED"} -> "pr_wait"
                 [] node.roll = "SUCCESS" -> "pr_ok"
                 [] OTHER -> "pr_none"
             want == Cardinality({k \in 1..Len(prDoc.nodes) :
                                    Written(prDoc.nodes[k]) = c})
             got == {k \in 1..Len(prOut.parts) : prOut.parts[k].color = c}
         IN IF want = 0 THEN got = {}
            ELSE \E k \in got : prOut.parts[k].n = want

\* C30: two different keys (owner, repository, branch) never get the same
\* per-branch cache file name.
C30_CacheNameInjective ==
  callDone => (callIn.k1 # callIn.k2 => callOut.n1 # callOut.n2)

\* C31: every value check_gh_available has returned is one of ok, no-gh,
\* no-auth, and the marker on disk, when it has content a reader would
\* accept, holds one of these three values.
C31_AvailabilityValues ==
  /\ \A i \in Invs : pc[i] \in {"pr_fresh", "done"} => gh[i] \in {"ok", "no-gh", "no-auth"}
  /\ (ghFile.exists /\ ghFile.text # "") => ghFile.text \in {"ok", "no-gh", "no-auth"}

\* C32: a call of get_ci_status whose check-runs call fails or returns
\* unparseable output returns no label and leaves every per-branch file as
\* it was; no call makes more than one remote call; and the next call for
\* the same branch and remote, gh still being available, makes the remote
\* call again.
C32_FailedCallNotCachedNotRetried ==
  [][(ciLast'.n = ciLast.n + 1) =>
       /\ (ciLast'.remote = 1 /\ ciLast'.api # "runs")
            => (ciLast'.label = "" /\ ciFiles' = ciFiles)
       /\ ciLast'.remote <= 1
       /\ (/\ ciLast.remote = 1 /\ ciLast.api # "runs"
           /\ ciLast'.branch = ciLast.branch /\ ciLast'.rem = ciLast.rem
           /\ ciLast'.ghv = "ok")
            => ciLast'.remote = 1]_vars

C32_Witness ==
  /\ ciLast.n = 2
  /\ ciLast.branch = BrMain
  /\ ciLast.remote = 1 /\ ciLast.api = "garbage"
  /\ ciLast.label = ""
  /\ ciFiles = <<>>

C34_Tier1SameRepository ==
  (callDone /\ callOut.found) =>
    \E k \in 1..Len(callIn.nodes) :
      /\ callIn.nodes[k].head = callIn.branch
      /\ \A h \in 1..(k - 1) : callIn.nodes[h].head # callIn.branch
      /\ callIn.nodes[k].repo = [owner |-> callIn.rem.owner, repo |-> callIn.rem.repo]

\* C35: the label tier 1 yields for the head branch of a cached review (the
\* first with that head) agrees with the bucket of the review's dot:
\* failing with failure, pending with pending, passing with success, and
\* unknown, a review without rollup or commits included, with no label.
C35_Tier1AgreesWithDot ==
  callDone =>
    \A k \in 1..Len(callIn.nodes) :
      (/\ callIn.nodes[k].head = callIn.branch
       /\ \A h \in 1..(k - 1) : callIn.nodes[h].head # callIn.branch)
        => /\ callOut.found
           /\ callOut.label =
                (CASE RollState(callIn.nodes[k]) \in RedStates -> "ci_fail"
                   [] RollState(callIn.nodes[k]) \in PendingStates -> "ci_wait"
                   [] RollState(callIn.nodes[k]) \in GreenStates -> "ci_ok"
                   [] OTHER -> "")

\* C36: the indicator string holds each of the markers dirty, staged,
\* untracked, ahead, behind at most once and in that order, whatever the
\* file lines and their order, and holds a marker exactly when its flag or
\* count is set.
C36_IndicatorsOnceInOrder ==
  callDone =>
    LET ind == callOut.indicators
        Rank(m) == CASE m = "*" -> 1 [] m = "+" -> 2 [] m = "?" -> 3
                     [] m = "^" -> 4 [] m = "v" -> 5 [] OTHER -> 0
        Has(m) == \E i \in 1..Len(ind) : ind[i] = m
    IN /\ \A i \in 1..Len(ind) : Rank(ind[i]) > 0
       /\ \A i, j \in 1..Len(ind) : i < j => Rank(ind[i]) < Rank(ind[j])
       /\ Has("*") <=> callOut.flags.dirty
       /\ Has("+") <=> callOut.flags.staged
       /\ Has("?") <=> callOut.flags.untracked
       /\ Has("^") <=> callOut.ahead # ""
       /\ Has("v") <=> callOut.behind # ""

C36_Witness ==
  /\ callDone
  /\ callIn \in GitInputs
  /\ callIn.lines = << <<"?", "?">>, <<"M", " ">>, <<" ", "M">> >>
  /\ callOut.indicators = <<"*", "+", "?", "^", "v">>

\* C37: after the theme is loaded every token has its default when the file
\* is absent or unparseable; keys that are not tokens change nothing and
\* add nothing; R keeps its default; and a token named by the file is the
\* known attributes of its entry in their order, then the foreground, then
\* the background.
C37_ThemeLoading ==
  callDone =>
    LET Known(a) == a \in {"dim", "bold", "italic", "underline", "reverse"}
        Attrs(e) == [i \in {j \in 1..Len(e.attrs) : Known(e.attrs[j])} |-> e.attrs[i]]
        Tail2(s) == IF Len(s) >= 2 THEN <<s[Len(s) - 1], s[Len(s)]>> ELSE s
    IN /\ ~callOut.raised
       /\ callIn.kind # "config" => theme = DefaultTheme
       /\ DOMAIN theme.T = DOMAIN DefaultT
       /\ theme.T.R = DefaultT.R
       /\ \A tok \in DOMAIN DefaultT :
            IF callIn.kind = "config" /\ tok \in DOMAIN callIn.config /\ tok # "R"
              THEN LET e == callIn.config[tok]
                       s == theme.T[tok]
                       nattr == Cardinality(DOMAIN Attrs(e))
                   IN /\ Len(s) = nattr + (IF e.fg # -1 THEN 1 ELSE 0)
                                        + (IF e.bg # -1 THEN 1 ELSE 0)
                      /\ \A i \in 1..nattr : s[i].k = "attr"
                      /\ e.fg # -1 => s[nattr + 1] = [k |-> "fg", n |-> e.fg]
                      /\ e.bg # -1 => s[Len(s)] = [k |-> "bg", n |-> e.bg]
              ELSE tok \in DOMAIN theme.T /\ theme.T[tok] = DefaultT[tok]

====
